---- MODULE Spec2Model ----
(***************************************************************************)
(* A model of the file tree (giv.FileTree / giv.FileNode), its OpenDirMap  *)
(* the content search (giv.ByteBufSearch) and the completion delay timer   *)
(* (gi.Complete) of the gi repository.                                     *)
(*                                                                         *)
(* Strings and byte slices are sequences of one-character tokens, so that  *)
(* prefix, suffix, split and slice are computed as the Go code computes    *)
(* them.  Seven specifications share the variables:                       *)
(*   Spec        the file tree over a small file system                    *)
(*   SpecOps     the file tree under its own operations only               *)
(*   SpecDnD     one drag-and-drop of file nodes onto another node         *)
(*   SpecODM     one mark / sweep cycle of an OpenDirMap                   *)
(*   SpecSearch  ByteBufSearch over bounded byte streams                   *)
(*   SpecComplete  Show, the timer callbacks and Cancel of a Complete      *)
(*   SpecMutex   the same with every Lock and Unlock a step                *)
(***************************************************************************)
EXTENDS Integers, Sequences, FiniteSets, TLC

VARIABLES
    fs,          \* the file system: absolute path -> "none" | "file" | "dir"
    fsChanges,   \* how often the file system changed since the tree was constructed
    Kids,        \* ki.Node.Kids: node -> sequence of child nodes
    Nm,          \* ki.Node.Nm: node -> name
    FPath,       \* FileNode.FPath: node -> absolute path
    InfoIsDir,   \* FileNode.Info.IsDir(): node -> BOOLEAN (cached stat)
    Open,        \* the FileNodeOpen flag: node -> BOOLEAN
    Buf,         \* FileNode.Buf: node -> <<>> (nil) or <<Filename>>
    OpenDirs,    \* FileTree.OpenDirs: an OpenDirMap, key -> BOOLEAN mark
    DirsOnTop,   \* FileTree.DirsOnTop
    msPc,        \* mark / sweep cycle: "start" | "mark" | "done" | "-"
    msKeys,      \* mark / sweep cycle: the key set when ClearFlags was called
    msRet,       \* mark / sweep cycle: key -> what IsOpen returned for it
    reader,      \* ByteBufSearch: the bytes the io.Reader delivers
    find,        \* ByteBufSearch: the pattern
    ignoreCase,  \* ByteBufSearch: the case mode
    FileSearchContext, \* the package variable FileSearchContext
    dnd,         \* the drag-and-drop in progress (see SpecDnD)
    comp,        \* a Complete, its timers and the Cancel in progress (see SpecComplete)
    searchOut    \* the search: <<>> before the call, <<result, io>> after it

vars == <<fs, fsChanges, Kids, Nm, FPath, InfoIsDir, Open, Buf, OpenDirs, DirsOnTop,
          msPc, msKeys, msRet, dnd, comp,
          reader, find, ignoreCase, FileSearchContext, searchOut>>

treeVars   == <<fs, fsChanges, Kids, Nm, FPath, InfoIsDir, Open, Buf, DirsOnTop>>
msVars     == <<msPc, msKeys, msRet>>
searchVars == <<reader, find, ignoreCase, FileSearchContext, searchOut>>
dndVars    == <<dnd>>
compVars   == <<comp>>

-----------------------------------------------------------------------------
(* Sequences as strings / byte slices *)

Min(a, b) == IF a < b THEN a ELSE b
Max(a, b) == IF a > b THEN a ELSE b

\* s[lo:hi] of Go, 0-based, lo <= hi <= len(s)
Slice(s, lo, hi) == SubSeq(s, lo + 1, hi)

HasPrefix(s, p) == Len(p) <= Len(s) /\ SubSeq(s, 1, Len(p)) = p
HasSuffix(s, p) == Len(p) <= Len(s) /\ SubSeq(s, Len(s) - Len(p) + 1, Len(s)) = p

\* bytes.Index(s, sep): the 0-based offset of the first occurrence, -1 if none
Index(s, sep) ==
    LET hits == {i \in 0..(Len(s) - Len(sep)) : Slice(s, i, i + Len(sep)) = sep}
    IN  IF hits = {} THEN -1 ELSE CHOOSE i \in hits : \A j \in hits : i <= j

\* The element of a one-element set.  The({body : x \in {e}}) is body with x
\* bound to the value of e, which is evaluated once however often body uses
\* x; the bindings of a chain read from its last line upwards.
The(S) == CHOOSE r \in S : TRUE

\* all sequences over S of length 0..n
SeqsUpTo(S, n) == UNION {[1..k -> S] : k \in 0..n}

-----------------------------------------------------------------------------
(* Paths: path/filepath on a Unix system, on sequences of characters *)

Sep == "/"

\* strings.Split(s, "/"): the pieces between separators (one more than separators)
RECURSIVE Split(_)
Split(s) ==
    The({
        IF i < 0 THEN <<s>>
        ELSE <<Slice(s, 0, i)>> \o Split(Slice(s, i + 1, Len(s)))
       : i \in {Index(s, <<Sep>>)}})

\* the pieces joined by "/"
RECURSIVE JoinSep(_)
JoinSep(elems) ==
    IF elems = <<>> THEN <<>>
    ELSE IF Len(elems) = 1 THEN elems[1]
    ELSE elems[1] \o <<Sep>> \o JoinSep(Tail(elems))

IsAbs(path) == path # <<>> /\ path[1] = Sep

\* the lexical processing of filepath.Clean on the components of a path:
\* empty and "." components are dropped, ".." removes the component before it
RECURSIVE CleanComps(_, _, _)
CleanComps(todo, done, rooted) ==
    IF todo = <<>> THEN done
    ELSE LET c == Head(todo)
         IN  IF c = <<>> \/ c = <<".">> THEN CleanComps(Tail(todo), done, rooted)
             ELSE IF c = <<".", ".">>
             THEN IF done # <<>> /\ done[Len(done)] # <<".", ".">>
                  THEN CleanComps(Tail(todo), SubSeq(done, 1, Len(done) - 1), rooted)
                  ELSE IF rooted THEN CleanComps(Tail(todo), done, rooted)
                  ELSE CleanComps(Tail(todo), Append(done, c), rooted)
             ELSE CleanComps(Tail(todo), Append(done, c), rooted)

\* the components of a cleaned path (without the root's leading separator)
Comps(path) == CleanComps(Split(path), <<>>, IsAbs(path))

\* filepath.Clean
Clean(path) ==
    The({
        IF IsAbs(path) THEN <<Sep>> \o JoinSep(cs)
        ELSE IF cs = <<>> THEN <<".">>
        ELSE JoinSep(cs)
       : cs \in {Comps(path)}})

\* filepath.Join(elems...): the non-empty elements joined by "/", then Clean
Join(elems) ==
    The({
        IF ne = <<>> THEN <<>> ELSE Clean(JoinSep(ne))
       : ne \in {SelectSeq(elems, LAMBDA e : e # <<>>)}})

\* filepath.Split(path): <<dir, file>>, the file being what follows the last "/"
SplitPath(path) ==
    LET seps == {i \in 1..Len(path) : path[i] = Sep}
        last == IF seps = {} THEN 0 ELSE CHOOSE i \in seps : \A j \in seps : j <= i
    IN  <<SubSeq(path, 1, last), SubSeq(path, last + 1, Len(path))>>

\* filepath.Abs(path): every path of the model is absolute already, so Abs is Clean
Abs(path) == Clean(path)

\* the length of the longest common prefix of two component sequences
RECURSIVE CommonLen(_, _)
CommonLen(a, b) ==
    IF a = <<>> \/ b = <<>> \/ Head(a) # Head(b) THEN 0
    ELSE 1 + CommonLen(Tail(a), Tail(b))

\* filepath.Rel(basepath, targpath): [err, path]. It fails when only one of the
\* two is absolute; otherwise it climbs with ".." out of what the two do not share.
Rel(basepath, targpath) ==
    IF IsAbs(Clean(basepath)) # IsAbs(Clean(targpath))
    THEN [err |-> TRUE, path |-> <<>>]
    ELSE The({
         The({
         The({
         The({
         The({
             [err |-> FALSE, path |-> IF r = <<>> THEN <<".">> ELSE JoinSep(r)]
            : r \in {up \o SubSeq(t, n + 1, Len(t))}})
            : up \in {[k \in 1..(Len(b) - n) |-> <<".", ".">>]}})
            : n \in {CommonLen(b, t)}})
            : t \in {Comps(targpath)}})
            : b \in {Comps(basepath)}})

-----------------------------------------------------------------------------
(* The file system under the tree's root directory *)

RootPath == <<"/", "r">>

\* the names a directory entry can have, in the lexical order of filepath.Walk
NameOrder == << <<"a">>, <<"b">>, <<"x">> >>
Names == {NameOrder[i] : i \in 1..Len(NameOrder)}

Child(dir, name) == dir \o <<Sep>> \o name

\* the paths of the file system: RootPath, its entries a, b and x, an entry x
\* in each of them, and an entry b in a
FsPaths ==
    {RootPath} \cup {Child(RootPath, n) : n \in Names}
        \cup {Child(Child(RootPath, d), <<"x">>) : d \in Names}
        \cup {Child(Child(RootPath, <<"a">>), <<"b">>)}

ParentPath(path) == The({SubSeq(d, 1, Len(d) - 1) : d \in {SplitPath(path)[1]}})

\* os.Stat / os.Lstat: "none" when the path does not exist
Stat(f, path) == IF path \in DOMAIN f THEN f[path] ELSE "none"

\* the entries of a directory, sorted by name (ioutil.ReadDir order)
DirEntries(f, path) ==
    IF Stat(f, path) # "dir" THEN <<>>
    ELSE SelectSeq(NameOrder, LAMBDA n : Stat(f, Child(path, n)) # "none")

\* every file system state of the model: the root is a directory and an entry
\* exists only in a directory
FsOK(f) ==
    /\ f[RootPath] = "dir"
    /\ \A p \in FsPaths \ {RootPath} : f[p] # "none" => f[ParentPath(p)] = "dir"

-----------------------------------------------------------------------------
(* OpenDirMap: a Go map[string]bool as a function with a finite domain *)

EmptyMap == [k \in {} |-> FALSE]

\* OpenDirMap.IsOpen: reports whether path is a key, and marks a present key
IsOpenMarkNothing(dm, path) == [ret |-> path \in DOMAIN dm, dm |-> dm]
\* IsOpen that stores the result of the lookup under path
IsOpenStoresLookup(dm, path) ==
    [ret |-> path \in DOMAIN dm,
     dm  |-> [k \in DOMAIN dm \cup {path} |-> IF k = path THEN path \in DOMAIN dm ELSE dm[k]]]
IsOpen(dm, path) ==
    IF path \in DOMAIN dm
    THEN [ret |-> TRUE,  dm |-> [dm EXCEPT ![path] = TRUE]]
    ELSE [ret |-> FALSE, dm |-> dm]

\* OpenDirMap.SetOpen
SetOpen(dm, path) ==
    [k \in DOMAIN dm \cup {path} |-> IF k = path THEN TRUE ELSE dm[k]]

\* OpenDirMap.SetClosed
SetClosed(dm, path) == [k \in DOMAIN dm \ {path} |-> dm[k]]

\* ClearFlags that leaves the marks as they are
ClearFlagsKeepsMarks(dm) == dm

\* OpenDirMap.ClearFlags
ClearFlags(dm) == [k \in DOMAIN dm |-> FALSE]

\* OpenDirMap.RemoveStale
RemoveStale(dm) == [k \in {x \in DOMAIN dm : dm[x]} |-> dm[k]]

-----------------------------------------------------------------------------
(* The node graph.  A node is a natural number (a pointer); Root is the      *)
(* FileTree, which is its own FRoot.  The operations are functions of a      *)
(* world W: the nodes' fields (the functions Kids, Nm, FPath, InfoIsDir,     *)
(* Open, Buf over the live nodes), the OpenDirMap od, the file system fs,    *)
(* the DirsOnTop policy dot, and used, the pointers handed out so far        *)
(* (a new node never gets the pointer of a node that lived before the call). *)

Root == 0
NoNode == -1

Put(fn, k, v) == [x \in DOMAIN fn \cup {k} |-> IF x = k THEN v ELSE fn[x]]

Nodes(W) == DOMAIN W.Nm

RECURSIVE Descendants(_, _)
Descendants(W, n) ==
    {n} \cup UNION {Descendants(W, W.Kids[n][i]) : i \in 1..Len(W.Kids[n])}

\* ki's destroy of deleted children: the nodes and all below them are gone
DestroyNodes(W, gone) ==
    The({
        [W EXCEPT !.Kids = [x \in keep |-> W.Kids[x]],
                  !.Nm = [x \in keep |-> W.Nm[x]],
                  !.FPath = [x \in keep |-> W.FPath[x]],
                  !.InfoIsDir = [x \in keep |-> W.InfoIsDir[x]],
                  !.Open = [x \in keep |-> W.Open[x]],
                  !.Buf = [x \in keep |-> W.Buf[x]]]
       : keep \in {Nodes(W) \ gone}})

NewId(W) == CHOOSE i \in 1..(Cardinality(W.used) + 1) :
                i \notin W.used /\ \A j \in 1..(i - 1) : j \in W.used

\* a node as ki.NewOfType and SetName leave it
NewNode(W, id, name) ==
    [W EXCEPT !.Kids = Put(W.Kids, id, <<>>),
              !.Nm = Put(W.Nm, id, name),
              !.FPath = Put(W.FPath, id, <<>>),
              !.InfoIsDir = Put(W.InfoIsDir, id, FALSE),
              !.Open = Put(W.Open, id, FALSE),
              !.Buf = Put(W.Buf, id, <<>>),
              !.used = W.used \cup {id}]

\* ki.Slice.IndexByName(name, startIdx), 0-based, -1 when no child has the name.
\* With startIdx = 0 the search is linear from the front; otherwise it probes
\* outwards from startIdx: startIdx+1, startIdx, startIdx+2, startIdx-1, ...
IndexByName(W, kids, name, startIdx) ==
    LET sz   == Len(kids)
        hits == {i \in 0..(sz - 1) : W.Nm[kids[i + 1]] = name}
        st   == IF startIdx >= sz THEN sz - 1 ELSE startIdx
        rank(i) == IF startIdx = 0 THEN i
                   ELSE IF i > st THEN 2 * (i - st - 1) ELSE 2 * (st - i) + 1
    IN  IF hits = {} THEN -1 ELSE CHOOSE i \in hits : \A j \in hits : rank(i) <= rank(j)

\* ki.Node.ChildByName(name, 0): the first child with the name, NoNode if none
ChildByName(W, n, name) ==
    The({
        IF i < 0 THEN NoNode ELSE W.Kids[n][i + 1]
       : i \in {IndexByName(W, W.Kids[n], name, 0)}})

InsertAt(kids, i, id) == SubSeq(kids, 1, i) \o <<id>> \o SubSeq(kids, i + 1, Len(kids))
RemoveAt(kids, i) == SubSeq(kids, 1, i) \o SubSeq(kids, i + 2, Len(kids))
Move(kids, frm, to) == InsertAt(RemoveAt(kids, frm), to, kids[frm + 1])

\* the second loop of ki.Slice.Config: for each config entry in order, the child
\* with its name is created at, or moved to, the entry's position
RECURSIVE ConfigPlace(_, _, _, _)
ConfigPlace(W0, n, config, i) ==
    The({
    IF i >= Len(config) THEN W
    ELSE The({
         The({
             IF kidx < 0
             THEN The({
                  The({
                      ConfigPlace([W1 EXCEPT !.Kids[n] = InsertAt(kids, i, id)], n, config, i + 1)
                     : W1 \in {NewNode(W, id, config[i + 1])}})
                     : id \in {NewId(W)}})
             ELSE IF kidx # i
             THEN ConfigPlace([W EXCEPT !.Kids[n] = Move(kids, kidx, i)], n, config, i + 1)
             ELSE ConfigPlace(W, n, config, i + 1)
            : kidx \in {IndexByName(W, kids, config[i + 1], i)}})
            : kids \in {W.Kids[n]}})
       : W \in {W0}})

\* ki.Node.ConfigChildren(config, false): children whose name is not in config
\* are deleted and destroyed, then ConfigPlace. All entries have the one type
\* FRoot.NodeType, so a config entry is a name.
ConfigChildrenRecreate(W0, n, config) ==
    The({
    LET byebye == UNION {Descendants(W, W.Kids[n][i]) : i \in 1..Len(W.Kids[n])}
    IN  ConfigPlace([DestroyNodes(W, byebye) EXCEPT !.Kids[n] = <<>>], n, config, 0)
       : W \in {W0}})
ConfigChildren(W0, n, config) ==
    The({
    LET inCfg(k) == \E i \in 1..Len(config) : config[i] = W.Nm[k]
        kids   == W.Kids[n]
    IN  The({
        The({
            ConfigPlace(W1, n, config, 0)
           : W1 \in {[DestroyNodes(W, byebye) EXCEPT !.Kids[n] = SelectSeq(kids, inCfg)]}})
           : byebye \in {UNION {Descendants(W, kids[i]) : i \in {j \in 1..Len(kids) : ~inCfg(kids[j])}}}})
       : W \in {W0}})

\* FileNode.ConfigOfFiles: the names filepath.Walk reports for the entries of
\* path (it skips every directory below path), directories first if DirsOnTop
ConfigOfFiles(W, path) ==
    LET isDir(nm) == Stat(W.fs, Child(path, nm)) = "dir"
    IN  The({
            IF W.dot
            THEN SelectSeq(all, isDir) \o SelectSeq(all, LAMBDA nm : ~isDir(nm))
            ELSE all
           : all \in {DirEntries(W.fs, path)}})

\* FileNode.RelPath
RelPath(W, n, fpath) ==
    The({IF r.err THEN <<>> ELSE r.path : r \in {Rel(W.FPath[n], fpath)}})

\* IsDirOpen that holds every directory to be open
IsDirOpenAlways(W, fpath) == [ret |-> TRUE, W |-> W]

\* IsDirOpen without the comparison of fpath with the root's path
IsDirOpenByMap(W, fpath) ==
    The({
        [ret |-> r.ret, W |-> [W EXCEPT !.od = r.dm]]
       : r \in {IsOpen(W.od, RelPath(W, Root, fpath))}})

\* FileTree.IsDirOpen: [ret, W]
IsDirOpen(W, fpath) ==
    IF fpath = W.FPath[Root] THEN [ret |-> TRUE, W |-> W]
    ELSE The({
             [ret |-> r.ret, W |-> [W EXCEPT !.od = r.dm]]
            : r \in {IsOpen(W.od, RelPath(W, Root, fpath))}})

\* FileTree.SetDirOpen, FileTree.SetDirClosed
SetDirOpen(W, fpath) == [W EXCEPT !.od = SetOpen(W.od, RelPath(W, Root, fpath))]
SetDirClosed(W, fpath) == [W EXCEPT !.od = SetClosed(W.od, RelPath(W, Root, fpath))]

RECURSIVE ReadDir(_, _, _)
RECURSIVE UpdateNode(_, _)
RECURSIVE UpdateKids(_, _, _, _)

\* FileNode.UpdateNode: [W, err]
UpdateNode(W0, n) ==
    The({
    The({
        IF st = "none" THEN [W |-> W, err |-> TRUE]
        ELSE The({
                 IF st # "dir" THEN [W |-> W1, err |-> FALSE]
                 ELSE The({
                           IF o.ret
                           THEN [W |-> ReadDir(o.W, n, o.W.FPath[n]).W, err |-> FALSE]
                           ELSE [W |-> o.W, err |-> FALSE]
                         : o \in {IsDirOpen(W1, W1.FPath[n])}})
                : W1 \in {[W EXCEPT !.InfoIsDir[n] = (st = "dir")]}})
       : st \in {Stat(W.fs, W.FPath[n])}})
       : W \in {W0}})

\* FileNode.SetNodePath: [W, err]
SetNodePath(W, n, path) == UpdateNode([W EXCEPT !.FPath[n] = Abs(path)], n)

\* the loop of ReadDir over fn.Kids, from the k-th child on
UpdateKids(W0, n, path, k) ==
    The({
    IF k > Len(W.Kids[n]) THEN W
    ELSE The({
         The({
             UpdateKids(SetNodePath(W, sf, fp).W, n, path, k + 1)
            : fp \in {Join(<<path, W.Nm[sf]>>)}})
            : sf \in {W.Kids[n][k]}})
       : W \in {W0}})

\* ReadDir that calls SetOpen before it stats the path
ReadDirOpenFirst(W0, n, path) ==
    The({
    The({
    The({
        IF st = "none" THEN [W |-> W1, err |-> TRUE]
        ELSE The({
             The({
                 [W |-> UpdateKids(W3, n, path, 1), err |-> FALSE]
                : W3 \in {ConfigChildren(W2, n, ConfigOfFiles(W2, path))}})
                : W2 \in {[W1 EXCEPT !.InfoIsDir[n] = (st = "dir")]}})
       : st \in {Stat(W.fs, W1.FPath[n])}})
       : W1 \in {[W EXCEPT !.Nm[n] = SplitPath(path)[2], !.FPath[n] = Abs(path),
                            !.Open[n] = TRUE]}})
       : W \in {W0}})

\* FileNode.ReadDir: [W, err]
ReadDir(W0, n, path) ==
    The({
    The({
    The({
    The({
        IF st = "none" THEN [W |-> W1, err |-> TRUE]
        ELSE The({
             The({
                 [W |-> UpdateKids(W3, n, path, 1), err |-> FALSE]
                : W3 \in {ConfigChildren(W2, n, ConfigOfFiles(W2, path))}})
                : W2 \in {[W1 EXCEPT !.InfoIsDir[n] = (st = "dir"), !.Open[n] = TRUE]}})
       : st \in {Stat(W.fs, W1.FPath[n])}})
       : W1 \in {[W EXCEPT !.Nm[n] = fnm, !.FPath[n] = Abs(path)]}})
       : fnm \in {SplitPath(path)[2]}})
       : W \in {W0}})

\* FileTree.OpenPath
OpenPath(W, path) == ReadDir([W EXCEPT !.od = ClearFlags(W.od)], Root, path).W

\* FileNode.OpenDir
OpenDir(W0, n) ==
    The({
    UpdateNode(SetDirOpen([W EXCEPT !.Open[n] = TRUE], W.FPath[n]), n).W
       : W \in {W0}})

\* FileNode.CloseDir
CloseDir(W, n) == SetDirClosed([W EXCEPT !.Open[n] = FALSE], W.FPath[n])

-----------------------------------------------------------------------------
(* Path resolution *)

\* the loop of OpenDirsTo from component i (0-based) on, cfn being the node
\* reached so far: [W, node, err]
RECURSIVE OpenDirsToWalk(_, _, _, _)

\* the loop of OpenDirsTo without the test for a directory
OpenDirsToWalkAny(W0, cfn, dirs, i) ==
    The({
    LET sz == Len(dirs) IN
    IF i >= sz THEN [W |-> W, node |-> cfn, err |-> FALSE]
    ELSE The({
             IF sfn = NoNode
             THEN IF i = sz - 1
                  THEN [W |-> W, node |-> cfn, err |-> FALSE]
                  ELSE [W |-> W, node |-> NoNode, err |-> TRUE]
             ELSE OpenDirsToWalk(IF i < sz - 1 /\ W.InfoIsDir[sfn] /\ ~W.Open[sfn]
                                 THEN OpenDir(W, sfn) ELSE W,
                                 sfn, dirs, i + 1)
            : sfn \in {ChildByName(W, cfn, dirs[i + 1])}})
       : W \in {W0}})

\* the loop of OpenDirsTo with an error for every component without a node
OpenDirsToWalkStrict(W0, cfn, dirs, i) ==
    The({
    LET sz == Len(dirs) IN
    IF i >= sz THEN [W |-> W, node |-> cfn, err |-> FALSE]
    ELSE The({
             IF sfn = NoNode
             THEN [W |-> W, node |-> NoNode, err |-> TRUE]
             ELSE IF W.InfoIsDir[sfn] \/ i = sz - 1
             THEN OpenDirsToWalk(IF i < sz - 1 /\ ~W.Open[sfn] THEN OpenDir(W, sfn) ELSE W,
                                 sfn, dirs, i + 1)
             ELSE [W |-> W, node |-> NoNode, err |-> TRUE]
            : sfn \in {ChildByName(W, cfn, dirs[i + 1])}})
       : W \in {W0}})

OpenDirsToWalk(W0, cfn, dirs, i) ==
    The({
    LET sz == Len(dirs) IN
    IF i >= sz THEN [W |-> W, node |-> cfn, err |-> FALSE]
    ELSE The({
             IF sfn = NoNode
             THEN IF i = sz - 1
                  THEN [W |-> W, node |-> cfn, err |-> FALSE]
                  ELSE [W |-> W, node |-> NoNode, err |-> TRUE]
             ELSE IF W.InfoIsDir[sfn] \/ i = sz - 1
             THEN OpenDirsToWalk(IF i < sz - 1 /\ ~W.Open[sfn] THEN OpenDir(W, sfn) ELSE W,
                                 sfn, dirs, i + 1)
             ELSE [W |-> W, node |-> NoNode, err |-> TRUE]
            : sfn \in {ChildByName(W, cfn, dirs[i + 1])}})
       : W \in {W0}})

\* FileNode.OpenDirsTo: [W, node, err]
OpenDirsTo(W0, n, path) ==
    The({
    The({
        IF rpath = <<".">> THEN [W |-> W, node |-> n, err |-> FALSE]
        ELSE IF rpath = <<>> THEN [W |-> W, node |-> NoNode, err |-> TRUE]
        ELSE The({OpenDirsToWalk(W, n, dirs, 0) : dirs \in {Split(rpath)}})
       : rpath \in {RelPath(W, n, Abs(path))}})
       : W \in {W0}})

\* the traversal of FindFile: ki.Node.FuncDownMeFirst calls the function on a
\* node and then on its children in order; a false return keeps it out of that
\* node's children only, and the traversal goes on with the node's siblings.
\* ffn is FindFile's variable ffn: every match overwrites it.
RECURSIVE FuncDownMeFirst(_, _, _, _)
RECURSIVE FuncDownKids(_, _, _, _)
FuncDownMeFirst(W, k, fneff, ffn) ==
    IF HasSuffix(W.FPath[k], fneff) THEN k
    ELSE FuncDownKids(W, W.Kids[k], fneff, ffn)
FuncDownKids(W, kids, fneff, ffn) ==
    IF kids = <<>> THEN ffn
    ELSE FuncDownKids(W, Tail(kids), fneff, FuncDownMeFirst(W, Head(kids), fneff, ffn))

\* the ".." rule of FindFile: the path from its first component that is not ".."
StripDotDot(fneff) ==
    The({
    The({
        IF at = {} THEN fneff
        ELSE Join(SubSeq(dirs, CHOOSE i \in at : \A j \in at : i <= j, Len(dirs)))
       : at \in {{i \in 1..Len(dirs) : dirs[i] # <<".", ".">>}}})
       : dirs \in {Split(fneff)}})

\* FileNode.FindFile: [W, node, found, fault]; fault is the panic of fneff[:2]
\* on a name of one byte
FindFile(W0, n, fnm0) ==
    The({
    The({
    IF fnm = <<>> THEN [W |-> W, node |-> NoNode, found |-> FALSE, fault |-> FALSE]
    ELSE IF Len(fnm) < 2 THEN [W |-> W, node |-> NoNode, found |-> FALSE, fault |-> TRUE]
    ELSE The({
             IF HasPrefix(fneff, W.FPath[n])
             THEN The({
                       IF ~r.err
                       THEN [W |-> r.W, node |-> r.node, found |-> TRUE, fault |-> FALSE]
                       ELSE [W |-> r.W, node |-> NoNode, found |-> FALSE, fault |-> FALSE]
                     : r \in {OpenDirsTo(W, n, fneff)}})
             ELSE The({
                       [W |-> W, node |-> ffn, found |-> ffn # NoNode, fault |-> FALSE]
                     : ffn \in {FuncDownMeFirst(W, n, fneff, NoNode)}})
            : fneff \in {IF Slice(fnm, 0, 2) = <<".", ".">> THEN StripDotDot(fnm) ELSE fnm}})
       : fnm \in {fnm0}})
       : W \in {W0}})

-----------------------------------------------------------------------------
(* File operations *)

\* os.Rename(old, new) inside FileInfo.Rename: [err, fs]. It fails when old does
\* not exist, when new's parent is not a directory, when new is inside old, when
\* a directory would replace a file or a non-empty directory, or a file a
\* directory; otherwise new (and what is below it) is old (and what was below it).
Under(path, dir) == HasPrefix(path, dir \o <<Sep>>)
OsRename(f, old, new) ==
    LET so == Stat(f, old)
        sn == Stat(f, new)
        newEmpty == \A p \in FsPaths : Under(p, new) => f[p] = "none"
        moved(p) == new \o SubSeq(p, Len(old) + 1, Len(p))
        fits == \A p \in FsPaths : (Under(p, old) /\ f[p] # "none") => moved(p) \in FsPaths
        from(q) == old \o SubSeq(q, Len(new) + 1, Len(q))
    IN  IF old = new /\ so # "none" THEN [err |-> FALSE, fs |-> f]
        ELSE IF \/ so = "none" \/ new \notin FsPaths \/ new = RootPath
                \/ Stat(f, ParentPath(new)) # "dir"
                \/ Under(new, old)
                \/ (so = "dir" /\ sn = "file")
                \/ (so = "dir" /\ sn = "dir" /\ ~newEmpty)
                \/ (so = "file" /\ sn = "dir")
                \/ ~fits
        THEN [err |-> TRUE, fs |-> f]
        ELSE [err |-> FALSE,
              fs |-> [p \in FsPaths |->
                        IF p = new \/ Under(p, new) THEN Stat(f, from(p))
                        ELSE IF p = old \/ Under(p, old) THEN "none"
                        ELSE f[p]]]

\* FileNode.RenameFile: [W, err]. Info.Path is the FPath the node was last
\* stat'ed at; on success Info.Path and Info.Name are the new path and its base.
RenameFile(W, n, newpath) ==
    The({
        IF r.err THEN [W |-> W, err |-> TRUE]
        ELSE [W |-> [W EXCEPT !.fs = r.fs, !.FPath[n] = newpath,
                              !.Nm[n] = SplitPath(newpath)[2]],
              err |-> FALSE]
       : r \in {OsRename(W.fs, W.FPath[n], newpath)}})

\* os.Remove inside FileInfo.Delete: [err, fs]. It fails when path does not
\* exist or is a directory that is not empty.
OsRemove(f, path) ==
    IF \/ Stat(f, path) = "none"
       \/ \E p \in FsPaths : Under(p, path) /\ f[p] # "none"
    THEN [err |-> TRUE, fs |-> f]
    ELSE [err |-> FALSE, fs |-> [f EXCEPT ![path] = "none"]]

\* os.Create: [err, fs]. It fails when the parent is not a directory or path is
\* a directory; an existing file is truncated.
OsCreate(f, path) ==
    IF \/ path \notin FsPaths \/ Stat(f, ParentPath(path)) # "dir" \/ Stat(f, path) = "dir"
    THEN [err |-> TRUE, fs |-> f]
    ELSE [err |-> FALSE, fs |-> [f EXCEPT ![path] = "file"]]

\* os.MkdirAll: [err, fs]. An existing directory is no error; it fails when path
\* or one of the directories above it is a file.
OsMkdirAll(f, path) ==
    IF Stat(f, path) = "dir" THEN [err |-> FALSE, fs |-> f]
    ELSE IF \/ path \notin FsPaths \/ Stat(f, path) = "file"
            \/ Stat(f, ParentPath(path)) # "dir"
    THEN [err |-> TRUE, fs |-> f]
    ELSE [err |-> FALSE, fs |-> [f EXCEPT ![path] = "dir"]]

\* CopyFile(dst, src, perm): [err, fs]. ioOK is whether the reads and writes of
\* the copy go through; it fails when src is no regular file, when dst is a
\* directory or dst's parent is none.
CopyFile(f, dst, src, ioOK) ==
    IF \/ ~ioOK \/ Stat(f, src) # "file" \/ dst \notin FsPaths
       \/ Stat(f, dst) = "dir" \/ Stat(f, ParentPath(dst)) # "dir"
    THEN [err |-> TRUE, fs |-> f]
    ELSE [err |-> FALSE, fs |-> [f EXCEPT ![dst] = "file"]]

\* the generated name of a copy ("a_Copy" for "a"): the name b stands for the
\* copy of a and for the copy of x; a copy of b has a name the model has no
\* path for
DupName(name) == IF name = <<"b">> THEN <<"b", "_">> ELSE <<"b">>

\* FileInfo.Duplicate: [err, fs]; only regular files are copied
InfoDuplicate(W, n) ==
    IF W.InfoIsDir[n] THEN [err |-> TRUE, fs |-> W.fs]
    ELSE CopyFile(W.fs, Child(ParentPath(W.FPath[n]), DupName(SplitPath(W.FPath[n])[2])),
                  W.FPath[n], TRUE)

\* ki.Node.Par: the node that has n among its children, NoNode for the root
Par(W, n) ==
    IF \E p \in Nodes(W) : \E i \in 1..Len(W.Kids[p]) : W.Kids[p][i] = n
    THEN CHOOSE p \in Nodes(W) : \E i \in 1..Len(W.Kids[p]) : W.Kids[p][i] = n
    ELSE NoNode

\* FileNode.DuplicateFile: [W, err]
DuplicateFile(W0, n) ==
    The({
    The({
        IF ~r.err /\ Par(W, n) # NoNode
        THEN [W |-> UpdateNode([W EXCEPT !.fs = r.fs], Par(W, n)).W, err |-> FALSE]
        ELSE [W |-> [W EXCEPT !.fs = r.fs], err |-> r.err]
       : r \in {InfoDuplicate(W, n)}})
       : W \in {W0}})

\* a Delete that leaves the node where it is
DeleteNodeSkipped(W, n) == W

\* ki.Node.Delete(true) of a node with a parent: it leaves the parent's
\* children and it and the nodes below it are destroyed
DeleteNode(W, n) ==
    LET p == Par(W, n)
    IN  [DestroyNodes(W, Descendants(W, n))
            EXCEPT !.Kids[p] = SelectSeq(W.Kids[p], LAMBDA k : k # n)]

\* a DeleteFile that removes the node whatever FileInfo.Delete returns
DeleteFileAlways(W, n) ==
    LET r == OsRemove(W.fs, W.FPath[n])
    IN  [W |-> DeleteNode([W EXCEPT !.fs = r.fs], n), err |-> r.err]

\* FileNode.DeleteFile: [W, err]
DeleteFile(W0, n) ==
    The({
    The({
        IF r.err THEN [W |-> W, err |-> TRUE]
        ELSE [W |-> DeleteNode([W EXCEPT !.fs = r.fs], n), err |-> FALSE]
       : r \in {OsRemove(W.fs, W.FPath[n])}})
       : W \in {W0}})

\* FileTree.UpdateNewFile
UpdateNewFile(W0, filename0) ==
    The({
    The({
    The({
    IF r.found THEN UpdateNode(r.W, r.node).W
    ELSE The({
         IF q.found THEN UpdateNode(q.W, q.node).W ELSE q.W
            : q \in {FindFile(r.W, Root, Clean(SplitPath(filename)[1]))}})
       : r \in {FindFile(W1, Root, filename)}})
       : W1 \in {OpenDirsTo(W0, Root, filename).W}})
       : filename \in {filename0}})

\* FileNode.NewFile: [W, err]; err is the dialog "Couldn't Make File"
NewFile(W0, n, filename) ==
    The({
    The({
    The({
        IF r.err THEN [W |-> W, err |-> TRUE]
        ELSE [W |-> UpdateNewFile([W EXCEPT !.fs = r.fs], np), err |-> FALSE]
       : r \in {OsCreate(W.fs, np)}})
       : np \in {Join(<<W.FPath[n], filename>>)}})
       : W \in {W0}})

\* FileNode.NewFolder: [W, err]; err is the dialog "Couldn't Make Folder"
NewFolder(W0, n, foldername) ==
    The({
    The({
        IF r.err THEN [W |-> W, err |-> TRUE]
        ELSE [W |-> UpdateNewFile([W EXCEPT !.fs = r.fs], W.FPath[n]), err |-> FALSE]
       : r \in {OsMkdirAll(W.fs, Join(<<W.FPath[n], foldername>>))}})
       : W \in {W0}})

\* FileNode.OpenBuf: [W, opened, err]; a buffer is <<Filename>>, nil is <<>>
OpenBuf(W, n) ==
    IF W.InfoIsDir[n] THEN [W |-> W, opened |-> FALSE, err |-> TRUE]
    ELSE IF W.Buf[n] # <<>> /\ W.Buf[n][1] = W.FPath[n]
    THEN [W |-> W, opened |-> FALSE, err |-> FALSE]
    ELSE [W |-> [W EXCEPT !.Buf[n] = <<W.FPath[n]>>], opened |-> TRUE,
          err |-> Stat(W.fs, W.FPath[n]) # "file"]

\* FileNode.CloseBuf
CloseBuf(W, n) == [W EXCEPT !.Buf[n] = <<>>]

-----------------------------------------------------------------------------
(* Spec: the file tree over the file system.  The state holds the world; a   *)
(* state is kept up to the renaming of node pointers (the nodes are numbered *)
(* in depth-first order after every operation).                              *)

\* the variables of the specifications that are not running
IdleTree ==
    /\ fs = <<>> /\ fsChanges = 0 /\ Kids = <<>> /\ Nm = <<>> /\ FPath = <<>>
    /\ InfoIsDir = <<>> /\ Open = <<>> /\ Buf = <<>> /\ DirsOnTop = FALSE
IdleMS == msPc = "-" /\ msKeys = {} /\ msRet = EmptyMap
DndRec(pc) ==
    [pc |-> pc, mod |-> "", md |-> <<>>, jobs |-> <<>>, prompt |-> FALSE,
     deleted |-> <<>>, delErr |-> <<>>, out |-> <<>>]
IdleDnD == dnd = DndRec("-")
IdleSearch ==
    /\ reader = <<>> /\ find = <<>> /\ ignoreCase = FALSE
    /\ FileSearchContext = 0 /\ searchOut = <<>>

\* the timers time.AfterFunc creates in a run
MaxTimers == 3
Timers == 1..MaxTimers

\* A Complete as constructed: Vp and DelayTimer are nil (DelayTimer 0), no
\* timer exists, ShowMu is free (0), Cancel is not running.  A timer is
\* "unused", "pending" (scheduled), "stopped" (Stop came first), "fired" (its
\* function was started), "shownow" (inside ShowNow, holding ShowMu), "clear"
\* (ShowNow returned), "clearing" (holding DelayMu) or "done".  DelayMu and
\* ShowMu hold the thread that has locked them: a timer for the thread of its
\* function, Caller for the thread of the events; caller is where that thread
\* is in Show.
Caller == MaxTimers + 1
CompRec ==
    [Vp |-> "nil", DelayTimer |-> 0, timer |-> [t \in Timers |-> "unused"],
     ShowMu |-> 0, cancel |-> [pc |-> "-", had |-> {}, ret |-> FALSE],
     DelayMu |-> 0, caller |-> [pc |-> "idle", text |-> <<>>]]
IdleComp == comp = CompRec

CurW ==
    [Kids |-> Kids, Nm |-> Nm, FPath |-> FPath, InfoIsDir |-> InfoIsDir,
     Open |-> Open, Buf |-> Buf, od |-> OpenDirs, fs |-> fs, dot |-> DirsOnTop,
     used |-> DOMAIN Nm]

RECURSIVE Preorder(_, _)
RECURSIVE PreorderKids(_, _)
Preorder(W, n) == <<n>> \o PreorderKids(W, W.Kids[n])
PreorderKids(W, kids) ==
    IF kids = <<>> THEN <<>> ELSE Preorder(W, Head(kids)) \o PreorderKids(W, Tail(kids))

Renumbered(W) ==
    The({
    The({
    LET N == Len(order)
        old(i) == order[i + 1]
    IN  [W EXCEPT !.Kids = [i \in 0..(N - 1) |->
                               [k \in 1..Len(W.Kids[old(i)]) |-> idx[W.Kids[old(i)][k]]]],
                  !.Nm = [i \in 0..(N - 1) |-> W.Nm[old(i)]],
                  !.FPath = [i \in 0..(N - 1) |-> W.FPath[old(i)]],
                  !.InfoIsDir = [i \in 0..(N - 1) |-> W.InfoIsDir[old(i)]],
                  !.Open = [i \in 0..(N - 1) |-> W.Open[old(i)]],
                  !.Buf = [i \in 0..(N - 1) |-> W.Buf[old(i)]]]
       : idx \in {[n \in {order[i] : i \in 1..Len(order)} |-> (CHOOSE i \in 1..Len(order) : order[i] = n) - 1]}})
       : order \in {Preorder(W, Root)}})

\* the file system changes at most MaxFsChanges times in a run (by the
\* environment or by an operation of the tree)
MaxFsChanges == 1

\* the world C becomes the state
Store(C) ==
    /\ Kids' = C.Kids /\ Nm' = C.Nm /\ FPath' = C.FPath
    /\ InfoIsDir' = C.InfoIsDir /\ Open' = C.Open /\ Buf' = C.Buf
    /\ OpenDirs' = C.od /\ fs' = C.fs /\ DirsOnTop' = C.dot

Commit(W) ==
    \E V \in {W} : \E C \in {Renumbered(V)} :
        /\ fsChanges' = (IF C.fs = fs THEN fsChanges ELSE fsChanges + 1)
        /\ fsChanges' <= MaxFsChanges
        /\ Store(C)
        /\ UNCHANGED <<msVars, searchVars, dndVars, compVars>>

\* the file systems the tree is first opened on: a directory a with a file x,
\* and a file x; the same with a file b
Fs0 == [p \in FsPaths |->
          CASE p \in {RootPath, Child(RootPath, <<"a">>)} -> "dir"
            [] p \in {Child(RootPath, <<"x">>), Child(Child(RootPath, <<"a">>), <<"x">>)} -> "file"
            [] OTHER -> "none"]
Fs1 == [Fs0 EXCEPT ![Child(RootPath, <<"b">>)] = "file"]

\* a FileTree as constructed: no path yet, no children, OpenDirs empty
InitTree ==
    /\ fs \in {Fs0, Fs1} /\ fsChanges = 0
    /\ Kids = [n \in {Root} |-> <<>>]
    /\ Nm = [n \in {Root} |-> <<>>]
    /\ FPath = [n \in {Root} |-> <<>>]
    /\ InfoIsDir = [n \in {Root} |-> FALSE]
    /\ Open = [n \in {Root} |-> FALSE]
    /\ Buf = [n \in {Root} |-> <<>>]
    /\ OpenDirs = EmptyMap
    /\ DirsOnTop \in BOOLEAN
    /\ IdleMS /\ IdleSearch /\ IdleComp

Init == InitTree /\ IdleDnD

Opened == FPath[Root] = RootPath

\* the names FindFile is asked for: paths of the file system, the suffixes
\* "/x" and "a/x", the relative "../a/x", a name of one byte and the empty name
FindNames ==
    {Child(RootPath, <<"a">>), Child(RootPath, <<"b">>),
     Child(Child(RootPath, <<"a">>), <<"x">>), Child(Child(RootPath, <<"b">>), <<"x">>),
     <<Sep, "x">>, <<"a", Sep, "x">>, <<".", ".", Sep, "a", Sep, "x">>, <<"x">>, <<>>}

OpenPathCall == Commit(OpenPath(CurW, RootPath))

ReadDirCall(n) ==
    /\ Opened /\ InfoIsDir[n]
    /\ Commit(ReadDir(CurW, n, FPath[n]).W)

UpdateNodeCall(n) ==
    /\ Opened
    /\ Commit(UpdateNode(CurW, n).W)

OpenDirCall(n) ==
    /\ Opened /\ InfoIsDir[n] /\ n # Root
    /\ Commit(OpenDir(CurW, n))

CloseDirCall(n) ==
    /\ Opened /\ InfoIsDir[n] /\ n # Root
    /\ Commit(CloseDir(CurW, n))

FindFileCall(fnm) ==
    /\ Opened
    /\ \E r \in {FindFile(CurW, Root, fnm)} : ~r.fault /\ Commit(r.W)

RenameFileCall(n, newpath) ==
    /\ Opened /\ n # Root
    /\ ParentPath(newpath) = ParentPath(FPath[n])
    /\ Commit(RenameFile(CurW, n, newpath).W)

DuplicateFileCall(n) ==
    /\ Opened /\ n # Root
    /\ Child(ParentPath(FPath[n]), DupName(SplitPath(FPath[n])[2])) \in FsPaths
    /\ Commit(DuplicateFile(CurW, n).W)

DeleteFileCall(n) ==
    /\ Opened /\ n # Root
    /\ Commit(DeleteFile(CurW, n).W)

NewFileCall(n, filename) ==
    /\ Opened /\ Join(<<FPath[n], filename>>) \in FsPaths
    /\ Commit(NewFile(CurW, n, filename).W)

NewFolderCall(n, foldername) ==
    /\ Opened /\ Join(<<FPath[n], foldername>>) \in FsPaths
    /\ Commit(NewFolder(CurW, n, foldername).W)

\* at most MaxOpenBufs nodes have a buffer at a time
MaxOpenBufs == 1

OpenBufCall(n) ==
    /\ Opened /\ ~InfoIsDir[n]
    /\ Buf[n] # <<>> \/ Cardinality({m \in DOMAIN Buf : Buf[m] # <<>>}) < MaxOpenBufs
    /\ Commit(OpenBuf(CurW, n).W)

CloseBufCall(n) ==
    /\ Opened /\ Buf[n] # <<>>
    /\ Commit(CloseBuf(CurW, n))

RemoveStaleCall ==
    /\ Opened
    /\ Commit([CurW EXCEPT !.od = RemoveStale(OpenDirs)])

\* the environment (another program) changes an entry between two operations
\* of the tree: the entry becomes a file, a directory, or nothing
FsSet(p, kind) ==
    /\ p # RootPath /\ fs[ParentPath(p)] = "dir" /\ fs[p] # kind
    /\ fsChanges < MaxFsChanges /\ fsChanges' = fsChanges + 1
    /\ fs' = [q \in FsPaths |-> IF q = p THEN kind ELSE IF Under(q, p) THEN "none" ELSE fs[q]]
    /\ UNCHANGED <<Kids, Nm, FPath, InfoIsDir, Open, Buf, OpenDirs, DirsOnTop, msVars, searchVars, dndVars, compVars>>

Next ==
    \/ OpenPathCall
    \/ \E n \in DOMAIN Nm : ReadDirCall(n)
    \/ \E n \in DOMAIN Nm : UpdateNodeCall(n)
    \/ \E n \in DOMAIN Nm : OpenDirCall(n)
    \/ \E n \in DOMAIN Nm : CloseDirCall(n)
    \/ \E fnm \in FindNames : FindFileCall(fnm)
    \/ \E n \in DOMAIN Nm, newpath \in FsPaths \ {RootPath} : RenameFileCall(n, newpath)
    \/ \E n \in DOMAIN Nm : DuplicateFileCall(n)
    \/ \E n \in DOMAIN Nm : DeleteFileCall(n)
    \/ \E n \in DOMAIN Nm, filename \in Names : NewFileCall(n, filename)
    \/ \E n \in DOMAIN Nm, foldername \in Names : NewFolderCall(n, foldername)
    \/ \E n \in DOMAIN Nm : OpenBufCall(n)
    \/ \E n \in DOMAIN Nm : CloseBufCall(n)
    \/ RemoveStaleCall
    \/ \E p \in FsPaths, kind \in {"none", "file", "dir"} : FsSet(p, kind)

Spec == Init /\ [][Next]_vars

-----------------------------------------------------------------------------
(* Claims about the file tree (checked under Spec) *)

DirNodes == {n \in DOMAIN Nm : InfoIsDir[n]}
Range(s) == {s[i] : i \in 1..Len(s)}
KidNames(W, n) == [i \in 1..Len(W.Kids[n]) |-> W.Nm[W.Kids[n][i]]]

\* the children of n are the same nodes with the same names in the same order
SameKids(W1, W2, n) ==
    W2.Kids[n] = W1.Kids[n] /\ KidNames(W2, n) = KidNames(W1, n)

\* C1: reconciling a directory twice in succession with no file system change
\* in between (ReadDir on the node's path, or OpenPath on the root) leaves the
\* children after the second call as they are after the first: the same names,
\* the same order, the same nodes.
C1_ReconcileTwice ==
    Opened =>
        /\ \A d \in DirNodes :
              The({
                   SameKids(W1, ReadDir(W1, d, FPath[d]).W, d)
                 : W1 \in {ReadDir(CurW, d, FPath[d]).W}})
        /\ The({
                SameKids(W1, OpenPath(W1, RootPath), Root)
              : W1 \in {OpenPath(CurW, RootPath)}})

\* the subtree below k is the same: the same nodes, names and child lists
SameSubtree(W1, W2, k) ==
    \A m \in Descendants(W1, k) :
        m \in Nodes(W2) /\ W2.Kids[m] = W1.Kids[m] /\ (m # k => W2.Nm[m] = W1.Nm[m])

\* child k of d has a name that the listing of d's directory holds
Listed(d, k) ==
    LET cfg == ConfigOfFiles(CurW, FPath[d])
    IN  \E i \in 1..Len(cfg) : cfg[i] = Nm[k]

\* child k of d is a directory that the tree holds as open: ReadDir of d goes
\* on into it
Reconciled(d, k) ==
    LET p == Join(<<FPath[d], Nm[k]>>)
    IN  Stat(fs, p) = "dir" /\ IsDirOpen(CurW, p).ret

\* C2: for every ReadDir of a directory node, each prior child whose name is
\* in the fresh listing is retained as the same node with the same Buf, open
\* flag and subtree; only children whose name is absent are removed.
C2_RetainedUntouched ==
    Opened =>
        \A d \in DirNodes :
            The({
                 ~r.err =>
                     \A k \in Range(Kids[d]) :
                         /\ Listed(d, k) =>
                                /\ k \in Range(r.W.Kids[d])
                                /\ r.W.Buf[k] = Buf[k]
                                /\ r.W.Open[k] = Open[k]
                                /\ SameSubtree(CurW, r.W, k)
                         /\ k \notin Range(r.W.Kids[d]) => ~Listed(d, k)
               : r \in {ReadDir(CurW, d, FPath[d])}})

\* C2 as the code has it: a retained child keeps its node and its Buf and its
\* open flag is never cleared; its open flag and subtree are the same unless it
\* is a directory the tree holds as open, which ReadDir reconciles in turn;
\* exactly the children whose name is absent from the listing are removed.
C2_RetainedOrReconciled ==
    Opened =>
        \A d \in DirNodes :
            The({
                 ~r.err =>
                     \A k \in Range(Kids[d]) :
                         /\ Listed(d, k) =>
                                /\ k \in Range(r.W.Kids[d])
                                /\ r.W.Buf[k] = Buf[k]
                                /\ Open[k] => r.W.Open[k]
                                /\ ~Reconciled(d, k) =>
                                       (r.W.Open[k] = Open[k] /\ SameSubtree(CurW, r.W, k))
                         /\ ~Listed(d, k) => k \notin Nodes(r.W)
               : r \in {ReadDir(CurW, d, FPath[d])}})

\* a directory with a listed child that has a buffer, a child that the listing
\* no longer holds, and a child that is reconciled in turn
C2_Witness ==
    /\ Opened
    /\ \E d \in DirNodes :
          /\ ~ReadDir(CurW, d, FPath[d]).err
          /\ \E k \in Range(Kids[d]) : Listed(d, k) /\ Buf[k] # <<>>
          /\ \E k \in Range(Kids[d]) : ~Listed(d, k)
          /\ \E k \in Range(Kids[d]) : Listed(d, k) /\ Reconciled(d, k)

\* the name FindFile looks for: fnm without its leading ".." components
EffName(fnm) ==
    IF Len(fnm) >= 2 /\ Slice(fnm, 0, 2) = <<".", ".">> THEN StripDotDot(fnm) ELSE fnm

\* the node's path is the name or ends with it
Represents(W, n, fnm) == HasSuffix(W.FPath[n], EffName(fnm))

C5_RenameUpdatesIdentity ==
    Opened =>
        \A n \in DOMAIN Nm \ {Root}, newpath \in FsPaths \ {RootPath} :
            The({
                 (~r.err /\ newpath # FPath[n]) =>
                     /\ r.W.FPath[n] = newpath
                     /\ r.W.Nm[n] = SplitPath(newpath)[2]
                     /\ The({f.found /\ f.node = n : f \in {FindFile(r.W, Root, newpath)}})
                     /\ ~FindFile(r.W, Root, FPath[n]).found
               : r \in {RenameFile(CurW, n, newpath)}})

\* C6: for every non-empty name, FindFile returns found = true only with a
\* node whose path is the name or ends with it, and returns (nil, false) when
\* no node of the tree represents the name.
C6_FindFileSound ==
    Opened =>
        \A fnm \in FindNames \cup FsPaths :
            Len(fnm) >= 2 =>
                The({
                     /\ r.found => (r.node # NoNode /\ Represents(r.W, r.node, fnm))
                     /\ (\A n \in Nodes(r.W) : ~Represents(r.W, n, fnm)) =>
                            (~r.found /\ r.node = NoNode)
                   : r \in {FindFile(CurW, Root, fnm)}})

\* the first node in depth-first pre-order whose path ends with the name
FirstMatch(W, fnm) ==
    LET order == Preorder(W, Root)
        at    == {i \in 1..Len(order) : Represents(W, order[i], fnm)}
    IN  IF at = {} THEN NoNode ELSE order[CHOOSE i \in at : \A j \in at : i <= j]

\* the names that go to the suffix scan of FindFile
SuffixNames == {fnm \in FindNames : Len(fnm) >= 2 /\ ~HasPrefix(EffName(fnm), RootPath)}

\* C7: a name that is not prefixed by the node's path is resolved to the first
\* node in depth-first pre-order that has it as a path suffix, and a repeated
\* call on the unchanged tree returns the same node.
C7_SuffixFirstMatch ==
    Opened =>
        \A fnm \in SuffixNames :
            The({
                 /\ r.node = FirstMatch(CurW, fnm)
                 /\ FindFile(r.W, Root, fnm).node = r.node
               : r \in {FindFile(CurW, Root, fnm)}})

\* C13: in every reachable state the FPath of every node but the root is the
\* join of its parent's FPath and its own name.
C13_PathIsParentJoinName ==
    \A n \in DOMAIN Nm \ {Root} :
        FPath[n] = Join(<<FPath[Par(CurW, n)], Nm[n]>>)

\* C14: in every reachable state the children of a node have different names.
C14_SiblingNamesUnique ==
    \A n \in DOMAIN Nm :
        \A i, j \in 1..Len(Kids[n]) : i # j => Nm[Kids[n][i]] # Nm[Kids[n][j]]

\* C15: when the file system side effect of DeleteFile, RenameFile,
\* DuplicateFile, NewFile or NewFolder fails, the call leaves the nodes, their
\* names, paths, open flags and buffers, the OpenDirMap and the file system as
\* they were, and DeleteFile, RenameFile and DuplicateFile return the error.
C15_FailedOpLeavesTree ==
    Opened =>
        \A n \in DOMAIN Nm :
            /\ (n # Root /\ OsRemove(fs, FPath[n]).err) =>
                   LET r == DeleteFile(CurW, n) IN r.err /\ r.W = CurW
            /\ \A newpath \in FsPaths \ {RootPath} :
                   OsRename(fs, FPath[n], newpath).err =>
                       LET r == RenameFile(CurW, n, newpath) IN r.err /\ r.W = CurW
            /\ InfoDuplicate(CurW, n).err =>
                   LET r == DuplicateFile(CurW, n) IN r.err /\ r.W = CurW
            /\ \A name \in Names :
                   /\ OsCreate(fs, Join(<<FPath[n], name>>)).err =>
                          NewFile(CurW, n, name).W = CurW
                   /\ OsMkdirAll(fs, Join(<<FPath[n], name>>)).err =>
                          NewFolder(CurW, n, name).W = CurW

\* a node whose file is gone (DeleteFile, RenameFile and DuplicateFile fail on
\* it) next to a file (NewFile and NewFolder fail below it or on its name)
C15_Witness ==
    /\ Opened
    /\ \E n \in DOMAIN Nm \ {Root} :
          /\ Stat(fs, FPath[n]) = "none" /\ ~InfoIsDir[n]
          /\ DeleteFile(CurW, n).err /\ DuplicateFile(CurW, n).err
          /\ \E newpath \in FsPaths \ {RootPath} : RenameFile(CurW, n, newpath).err
    /\ \E n \in DOMAIN Nm, name \in Names :
          /\ Stat(fs, Join(<<FPath[n], name>>)) = "file"
          /\ NewFolder(CurW, n, name).err
          /\ \E m \in DOMAIN Nm : Stat(fs, FPath[m]) = "file" /\ NewFile(CurW, m, name).err

\* the node d is in the tree W and has a child named name
HasChildNamed(W, d, name) == d \in Nodes(W) /\ ChildByName(W, d, name) # NoNode

\* C16: after a successful NewFile(name) or NewFolder(name) on a directory node
\* D, D has a child named name, whether D was open or not.
C16_NewEntryAmongChildren ==
    Opened =>
        \A d \in DOMAIN Nm : \A name \in Names :
            (InfoIsDir[d] /\ Join(<<FPath[d], name>>) \in FsPaths) =>
                /\ LET r == NewFile(CurW, d, name)
                   IN  ~r.err => HasChildNamed(r.W, d, name)
                /\ LET r == NewFolder(CurW, d, name)
                   IN  ~r.err => HasChildNamed(r.W, d, name)

\* C17: after a successful DuplicateFile on a node with parent P, P has a child
\* for the copy, also when P was closed after its children were enumerated.
C17_CopyAmongSiblings ==
    Opened =>
        \A n \in DOMAIN Nm \ {Root} :
            LET copy == DupName(SplitPath(FPath[n])[2])
                r    == DuplicateFile(CurW, n)
            IN  (Child(ParentPath(FPath[n]), copy) \in FsPaths /\ ~r.err) =>
                    HasChildNamed(r.W, Par(CurW, n), copy)

\* the fields of node k and of the nodes below it are the same in W1 and W2
SameNodeAndBelow(W1, W2, k) ==
    /\ Descendants(W1, k) \subseteq Nodes(W2)
    /\ \A m \in Descendants(W1, k) :
          /\ W2.Kids[m] = W1.Kids[m] /\ W2.Nm[m] = W1.Nm[m] /\ W2.FPath[m] = W1.FPath[m]
          /\ W2.InfoIsDir[m] = W1.InfoIsDir[m] /\ W2.Open[m] = W1.Open[m]
          /\ W2.Buf[m] = W1.Buf[m]

\* C18: after a successful DeleteFile on node N, N is not among its parent's
\* children, no FindFile returns N, and the parent's other children are the
\* same nodes, in the same order, unchanged.
C18_DeletedNodeGone ==
    Opened =>
        \A n \in DOMAIN Nm \ {Root} :
            LET r == DeleteFile(CurW, n)
                p == Par(CurW, n)
            IN  ~r.err =>
                  /\ n \notin Nodes(r.W)
                  /\ r.W.Kids[p] = SelectSeq(Kids[p], LAMBDA k : k # n)
                  /\ \A i \in 1..Len(r.W.Kids[p]) : SameNodeAndBelow(CurW, r.W, r.W.Kids[p][i])
                  /\ \A fnm \in FindNames \cup {FPath[n]} :
                        LET f == FindFile(r.W, Root, fnm) IN ~f.fault => f.node # n

\* a node with a sibling is deleted, and FindFile is then asked for its path
C18_Witness ==
    /\ Opened
    /\ \E n \in DOMAIN Nm \ {Root} :
          /\ ~DeleteFile(CurW, n).err
          /\ Len(Kids[Par(CurW, n)]) > 1
          /\ FPath[n] \in FindNames
          /\ FindFile(DeleteFile(CurW, n).W, Root, FPath[n]).node # n

\* C19: OpenBuf on a file node that has a buffer returns (false, nil) and leaves
\* the buffer as it is, in every reachable state; OpenBuf on a directory node
\* returns an error and attaches no buffer.
C19_OpenBufIdempotent ==
    Opened =>
        \A n \in DOMAIN Nm :
            LET r == OpenBuf(CurW, n)
            IN  /\ (~InfoIsDir[n] /\ Buf[n] # <<>>) => (~r.opened /\ ~r.err /\ r.W = CurW)
                /\ InfoIsDir[n] => (r.err /\ ~r.opened /\ r.W = CurW)

\* the directory nodes whose path the file system no longer has
GoneDirNodes == {n \in DOMAIN Nm : InfoIsDir[n] /\ Stat(fs, Abs(FPath[n])) = "none"}

\* C27 as stated: ReadDir of a path that cannot be stat'ed returns the error and
\* leaves the node with its open flag set and without children.
C27_OpenButUnpopulated ==
    Opened =>
        \A n \in GoneDirNodes :
            LET r == ReadDir(CurW, n, FPath[n])
            IN  r.err /\ r.W.Open[n] /\ r.W.Kids[n] = <<>>

\* C27 as amended: ReadDir of a path that cannot be stat'ed returns the error
\* and leaves the open flag and the children of every node as they were.
C27_StatFailureLeavesNode ==
    Opened =>
        \A n \in GoneDirNodes :
            LET r == ReadDir(CurW, n, FPath[n])
            IN  /\ r.err
                /\ r.W.Open = Open /\ r.W.Kids = Kids
                /\ r.W.od = OpenDirs /\ DOMAIN r.W.Nm = DOMAIN Nm

\* ReadDir fails on a closed directory node that has children
C27_Witness ==
    /\ Opened
    /\ \E n \in GoneDirNodes :
          /\ ~Open[n] /\ Kids[n] # <<>>
          /\ ReadDir(CurW, n, FPath[n]).err
          /\ ~ReadDir(CurW, n, FPath[n]).W.Open[n]

\* the directory nodes ReadDir succeeds on
LiveDirNodes == {n \in DOMAIN Nm : InfoIsDir[n] /\ ~ReadDir(CurW, n, FPath[n]).err}

\* the children of d after ReadDir of d that are directories of the file system
DirKidsAfter(d) ==
    LET W2 == ReadDir(CurW, d, FPath[d]).W
    IN  {k \in Range(W2.Kids[d]) : Stat(fs, Join(<<FPath[d], W2.Nm[k]>>)) = "dir"}

\* the key of the OpenDirMap for child k of d after ReadDir of d
KeyAfter(d, k) ==
    RelPath(CurW, Root, Join(<<FPath[d], ReadDir(CurW, d, FPath[d]).W.Nm[k]>>))

\* C28: after ReadDir of a directory node, a child directory whose path
\* relative to the root is a key of the OpenDirMap has been enumerated (it is
\* open and its children are the entries of its directory); a child directory
\* whose key is absent has not: a new node has no children, a retained node has
\* the open flag and the subtree it had before.
C28_LazyExpansion ==
    Opened =>
        \A d \in LiveDirNodes : \A k \in DirKidsAfter(d) :
            LET W2 == ReadDir(CurW, d, FPath[d]).W
                p  == Join(<<FPath[d], W2.Nm[k]>>)
            IN  IF KeyAfter(d, k) \in DOMAIN OpenDirs
                THEN /\ W2.Open[k]
                     /\ Range(KidNames(W2, k)) = Range(ConfigOfFiles(CurW, p))
                ELSE IF k \in DOMAIN Nm
                THEN W2.Open[k] = Open[k] /\ SameSubtree(CurW, W2, k)
                ELSE ~W2.Open[k] /\ W2.Kids[k] = <<>>

\* ReadDir of a directory with a child directory that has a key and one that
\* has entries and no key
C28_Witness ==
    /\ Opened
    /\ \E d \in LiveDirNodes :
          /\ \E k \in DirKidsAfter(d) :
                /\ KeyAfter(d, k) \in DOMAIN OpenDirs
                /\ ReadDir(CurW, d, FPath[d]).W.Open[k]
          /\ \E k \in DirKidsAfter(d) :
                /\ KeyAfter(d, k) \notin DOMAIN OpenDirs
                /\ DirEntries(fs, Join(<<FPath[d], ReadDir(CurW, d, FPath[d]).W.Nm[k]>>)) # <<>>
                /\ ReadDir(CurW, d, FPath[d]).W.Kids[k] = <<>>

\* the children of d after ReadDir of d, in order: directories of the file
\* system (TRUE) and other entries (FALSE)
KidIsDirAfter(d) ==
    LET W2 == ReadDir(CurW, d, FPath[d]).W
    IN  [i \in 1..Len(W2.Kids[d]) |->
            Stat(fs, Join(<<FPath[d], W2.Nm[W2.Kids[d][i]]>>)) = "dir"]

\* C29: after ReadDir of a directory node the names of its children, in
\* order, are the listing of the directory under the DirsOnTop policy,
\* whatever children the node had before; with DirsOnTop no file child
\* precedes a directory child.
C29_OrderFromListing ==
    Opened =>
        \A d \in LiveDirNodes :
            /\ KidNames(ReadDir(CurW, d, FPath[d]).W, d) = ConfigOfFiles(CurW, FPath[d])
            /\ DirsOnTop =>
                  \A i, j \in DOMAIN KidIsDirAfter(d) :
                      (KidIsDirAfter(d)[j] /\ ~KidIsDirAfter(d)[i]) => j < i

\* the components of path p below the path of node n
CompsBelow(n, p) == Split(SubSeq(p, Len(FPath[n]) + 2, Len(p)))

\* the nodes that the components dirs name one below the other from node cfn
\* on, up to the first component that names no child
RECURSIVE NodesAlong(_, _, _)
NodesAlong(W, cfn, dirs) ==
    IF dirs = <<>> \/ ChildByName(W, cfn, Head(dirs)) = NoNode THEN <<>>
    ELSE <<ChildByName(W, cfn, Head(dirs))>>
           \o NodesAlong(W, ChildByName(W, cfn, Head(dirs)), Tail(dirs))

\* the paths OpenDirsTo is asked for on node n: the paths below n's path
PathsBelow(n) == {p \in FsPaths : Under(p, FPath[n])}

\* C30: OpenDirsTo of a path below the node's path, all of whose components
\* but the last name directory nodes one below the other while the last names
\* no child, returns the node of the last but one component (the node itself
\* for a single component) and no error; if a component before the last names
\* no child it returns an error and no node.  The children are those the
\* walk finds, that is after it has opened the directories on the way.
C30_MissingComponent ==
    Opened =>
        \A n \in DOMAIN Nm : \A p \in PathsBelow(n) :
            LET r    == OpenDirsTo(CurW, n, p)
                dirs == CompsBelow(n, p)
                al   == NodesAlong(r.W, n, dirs)
            IN  /\ (Len(al) = Len(dirs) - 1 /\ \A i \in 1..Len(al) : r.W.InfoIsDir[al[i]]) =>
                      (~r.err /\ r.node = IF al = <<>> THEN n ELSE al[Len(al)])
                /\ Len(al) < Len(dirs) - 1 => (r.err /\ r.node = NoNode)

\* a path whose last component names no child of the directory node a, which
\* OpenDirsTo returns, and a path whose first component names no child
C30_Witness ==
    /\ Opened
    /\ \E p \in PathsBelow(Root) :
          /\ Len(CompsBelow(Root, p)) = 2
          /\ Len(NodesAlong(OpenDirsTo(CurW, Root, p).W, Root, CompsBelow(Root, p))) = 1
          /\ OpenDirsTo(CurW, Root, p).node \notin {Root, NoNode}
          /\ ~OpenDirsTo(CurW, Root, p).err
    /\ \E p \in PathsBelow(Root) :
          /\ Len(CompsBelow(Root, p)) = 2
          /\ NodesAlong(OpenDirsTo(CurW, Root, p).W, Root, CompsBelow(Root, p)) = <<>>
          /\ OpenDirsTo(CurW, Root, p).err

\* C31: OpenDirsTo of a path below the node's path whose first component, not
\* being the last, names a child that is not a directory returns an error and
\* no node and leaves the tree as it is; a path whose components all name
\* nodes and whose last names a file node returns that node and no error,
\* and the file node is as it was.
C31_ThroughFile ==
    Opened =>
        \A n \in DOMAIN Nm : \A p \in PathsBelow(n) :
            LET r    == OpenDirsTo(CurW, n, p)
                dirs == CompsBelow(n, p)
                k    == ChildByName(CurW, n, dirs[1])
                al   == NodesAlong(r.W, n, dirs)
            IN  /\ (Len(dirs) > 1 /\ k # NoNode /\ ~InfoIsDir[k]) =>
                      (r.err /\ r.node = NoNode /\ r.W = CurW)
                /\ (~r.err /\ Len(al) = Len(dirs) /\ ~r.W.InfoIsDir[al[Len(al)]]) =>
                      /\ r.node = al[Len(al)]
                      /\ ~r.W.Open[r.node] \/ (r.node \in DOMAIN Nm /\ Open[r.node])
                      /\ r.W.Kids[r.node] = IF r.node \in DOMAIN Nm THEN Kids[r.node] ELSE <<>>

\* a path through the file node x, and a path to a file node below directory a
C31_Witness ==
    /\ Opened
    /\ \E p \in PathsBelow(Root) :
          /\ Len(CompsBelow(Root, p)) = 2
          /\ ChildByName(CurW, Root, CompsBelow(Root, p)[1]) # NoNode
          /\ ~InfoIsDir[ChildByName(CurW, Root, CompsBelow(Root, p)[1])]
          /\ OpenDirsTo(CurW, Root, p).err
    /\ \E p \in PathsBelow(Root) :
          /\ Len(CompsBelow(Root, p)) = 2
          /\ ~OpenDirsTo(CurW, Root, p).err
          /\ Len(NodesAlong(OpenDirsTo(CurW, Root, p).W, Root, CompsBelow(Root, p))) = 2
          /\ ~OpenDirsTo(CurW, Root, p).W.InfoIsDir[OpenDirsTo(CurW, Root, p).node]

\* the nodes strictly between node n and the node OpenDirsTo(n, p) returns
Between(n, p) ==
    LET r  == OpenDirsTo(CurW, n, p)
        al == NodesAlong(r.W, n, CompsBelow(n, p))
    IN  IF r.err THEN {}
        ELSE {al[i] : i \in {j \in 1..Len(al) : \E m \in (j + 1)..Len(al) : al[m] = r.node}}

\* C32: after OpenDirsTo has returned a node and no error, every node strictly
\* between the starting node and the returned node on the path has its open
\* flag set and its path relative to the root as a key of the OpenDirMap, and
\* its children are the entries of its directory if the walk opened it; the
\* returned node, if it is the last component, has the open flag and the
\* children it had.
C32_IntermediatesOpen ==
    Opened =>
        \A n \in DOMAIN Nm : \A p \in PathsBelow(n) :
            LET r  == OpenDirsTo(CurW, n, p)
                al == NodesAlong(r.W, n, CompsBelow(n, p))
            IN  /\ \A k \in Between(n, p) :
                      /\ r.W.Open[k]
                      /\ RelPath(r.W, Root, r.W.FPath[k]) \in DOMAIN r.W.od
                      /\ (k \notin DOMAIN Nm \/ ~Open[k]) =>
                            Range(KidNames(r.W, k)) = Range(ConfigOfFiles(r.W, r.W.FPath[k]))
                /\ (~r.err /\ Len(al) = Len(CompsBelow(n, p)) /\ r.node \in DOMAIN Nm /\ r.node # n) =>
                      (r.W.Open[r.node] = Open[r.node] /\ r.W.Kids[r.node] = Kids[r.node])

\* absolute paths that are not node n's path and not below it: paths of the
\* file system, the parent directory of the root and a sibling of the root
PathsOutside(n) ==
    {p \in FsPaths \cup {<<Sep>>, <<Sep, "s">>} : p # FPath[n] /\ ~Under(p, FPath[n])}

\* C33: OpenDirsTo of an absolute path that is not within the node's own
\* directory returns an error and no node and leaves the tree as it is.
C33_OutsidePath ==
    Opened =>
        \A n \in DOMAIN Nm : \A p \in PathsOutside(n) :
            LET r == OpenDirsTo(CurW, n, p)
            IN  r.err /\ r.node = NoNode /\ r.W = CurW

\* the keys of the OpenDirMap that are proper ancestors of key k
AncestorKeys(k) ==
    {JoinSep(SubSeq(Split(k), 1, j)) : j \in 1..(Len(Split(k)) - 1)}

\* the keys of dm that name a directory of the file system below the root, all
\* of whose ancestors below the root are keys as well
LiveKeys(dm) ==
    {k \in DOMAIN dm :
        /\ k # <<>> /\ Stat(fs, Join(<<RootPath, k>>)) = "dir"
        /\ Under(Join(<<RootPath, k>>), RootPath)
        /\ AncestorKeys(k) \subseteq DOMAIN dm}

\* C35: OpenPath removes no key of the OpenDirMap, and after OpenPath of the
\* root directory and RemoveStale the keys are exactly the keys that name a
\* directory all of whose ancestors below the root are keys.
C35_SweepKeepsLiveKeys ==
    /\ DOMAIN OpenDirs \subseteq DOMAIN OpenPath(CurW, RootPath).od
    /\ DOMAIN RemoveStale(OpenPath(CurW, RootPath).od) = LiveKeys(OpenDirs)

\* the map holds a key that the sweep keeps and a key that it removes
C35_Witness ==
    /\ Opened
    /\ LiveKeys(OpenDirs) # {} /\ LiveKeys(OpenDirs) # DOMAIN OpenDirs
    /\ DOMAIN RemoveStale(OpenPath(CurW, RootPath).od) # DOMAIN OpenDirs

\* SpecOps: the tree under OpenPath, OpenDir, CloseDir, FindFile (which calls
\* OpenDirsTo), RemoveStale and the operations that change files, with no
\* change of the file system from outside
NextOps ==
    \/ OpenPathCall
    \/ \E n \in DOMAIN Nm : OpenDirCall(n)
    \/ \E n \in DOMAIN Nm : CloseDirCall(n)
    \/ \E fnm \in FindNames : FindFileCall(fnm)
    \/ \E n \in DOMAIN Nm, newpath \in FsPaths \ {RootPath} : RenameFileCall(n, newpath)
    \/ \E n \in DOMAIN Nm : DuplicateFileCall(n)
    \/ \E n \in DOMAIN Nm : DeleteFileCall(n)
    \/ \E n \in DOMAIN Nm, filename \in Names : NewFileCall(n, filename)
    \/ \E n \in DOMAIN Nm, foldername \in Names : NewFolderCall(n, foldername)
    \/ RemoveStaleCall

SpecOps == Init /\ [][NextOps]_vars

\* C36: every directory node other than the root whose open flag is set has
\* its path relative to the root as a key of the OpenDirMap.
C36_OpenFlagHasKey ==
    Opened =>
        \A n \in DOMAIN Nm \ {Root} :
            (InfoIsDir[n] /\ Open[n]) => RelPath(CurW, Root, FPath[n]) \in DOMAIN OpenDirs

\* C37: after ReadDir of a directory node, a child whose cached info says
\* that it is not a directory has no children and no open flag.
C37_FilesHaveNoChildren ==
    Opened =>
        \A d \in LiveDirNodes :
            LET W2 == ReadDir(CurW, d, FPath[d]).W
            IN  \A k \in Range(W2.Kids[d]) :
                    ~W2.InfoIsDir[k] => (W2.Kids[k] = <<>> /\ ~W2.Open[k])

\* C38: FindFile on the root returns a result for every name, the empty name
\* and the names of one byte included: a node and true, or no node and false.
C38_FindFileTotal ==
    Opened =>
        \A fnm \in FindNames :
            LET r == FindFile(CurW, Root, fnm)
            IN  ~r.fault /\ (r.found <=> r.node # NoNode)

\* the worlds of C24: the current one, and the current one with the root's path
\* closed, with the root's path opened, with the stale entries removed, and with
\* an empty OpenDirMap
RootMapWorlds ==
    { CurW,
      SetDirClosed(CurW, FPath[Root]),
      SetDirOpen(CurW, FPath[Root]),
      [CurW EXCEPT !.od = RemoveStale(ClearFlags(OpenDirs))],
      [CurW EXCEPT !.od = RemoveStale(OpenDirs)],
      [CurW EXCEPT !.od = EmptyMap] }

\* C24: IsDirOpen of the root's path returns true in every reachable state,
\* whatever the OpenDirMap holds (nothing, no entry for the root after
\* SetDirClosed or RemoveStale), and the call adds, removes and marks no entry.
C24_RootAlwaysOpen ==
    \A W \in RootMapWorlds : IsDirOpen(W, W.FPath[Root]) = [ret |-> TRUE, W |-> W]

\* the tree is open, the map has unmarked entries and none for the root
C24_Witness ==
    /\ Opened
    /\ OpenDirs # EmptyMap
    /\ RelPath(CurW, Root, FPath[Root]) \notin DOMAIN OpenDirs
    /\ \E k \in DOMAIN OpenDirs : ~OpenDirs[k]
    /\ IsDirOpen(CurW, FPath[Root]).ret

-----------------------------------------------------------------------------
(* SpecDnD: one drag-and-drop of nodes of the tree view onto another node.   *)
(* The target's view gets Drop, which copies (PasteMime) and then finalizes  *)
(* the drag; the source's view then gets Dragged, which deletes the sources  *)
(* when the drop was a move.  The overwrite dialog of a copy returns at once *)
(* and calls its function back when it is answered.  The environment may     *)
(* remove an entry of the file system between Drop and Dragged; directories  *)
(* are opened and closed before the drag.                                    *)
(* dnd is [pc, mod, md, jobs, prompt, deleted, delErr, out]:                 *)
(*   pc       "idle" | "dropped" (Drop has run, Dragged is due) | "done"     *)
(*   mod      the drop modifier, "DropMove" or "DropCopy"                    *)
(*   md       the mime data, two entries for every dragged node              *)
(*   jobs     one record for every CopyFileToDir / CopyFileToFile call:      *)
(*            to ("dir" | "file", which of the two), src (the ki path of     *)
(*            the source), filename, tpath, existed                          *)
(*            (what os.Stat said of tpath), sig (the dialog's answer, -1     *)
(*            while there is none) and copy: "copied" | "failed" (CopyFile   *)
(*            has run) | "asking" | "declined"                               *)
(*   prompt   the "Can Only Copy 1 File" dialog has been shown               *)
(*   deleted, delErr   the ki paths whose DeleteFile returned nil / an error *)
(*   out      the lines printed                                              *)

\* ki.Node.PathUnique / FindPathUnique: the names from the root down to a node
RECURSIVE PathUnique(_, _)
PathUnique(W, n) == IF n = Root THEN <<>> ELSE Append(PathUnique(W, Par(W, n)), W.Nm[n])

RECURSIVE FindPathUniqueFrom(_, _, _)
FindPathUniqueFrom(W, n, names) ==
    IF names = <<>> THEN n
    ELSE The({IF k = NoNode THEN NoNode ELSE FindPathUniqueFrom(W, k, Tail(names))
              : k \in {ChildByName(W, n, Head(names))}})
FindPathUnique(W, names) == FindPathUniqueFrom(W, Root, names)

\* TreeView.MimeData of the dragged nodes sel: for every node a text/plain
\* entry with its ki path and an entry with its JSON
RECURSIVE MimeData(_, _)
MimeData(W, sel) ==
    IF sel = <<>> THEN <<>>
    ELSE <<[Type |-> "text/plain", Data |-> PathUnique(W, Head(sel))],
           [Type |-> "application/json", Data |-> <<>>]>> \o MimeData(W, Tail(sel))

\* a CopyFileToDir that never asks
CopyFileToDirNoAsk(W, t, src, filename, ioOK) ==
    The({
    The({[W |-> [W EXCEPT !.fs = r.fs],
          job |-> [to |-> "dir", src |-> src, filename |-> filename, tpath |-> tpath,
                   existed |-> Stat(W.fs, tpath) # "none", sig |-> -1,
                   copy |-> IF r.err THEN "failed" ELSE "copied"]]
       : r \in {CopyFile(W.fs, tpath, filename, ioOK)}})
       : tpath \in {Join(<<W.FPath[t], SplitPath(filename)[2]>>)}})

\* FileNode.CopyFileToDir: [W, job]; the result of CopyFile is dropped by the
\* code and kept here in the job's copy
CopyFileToDir(W, t, src, filename, ioOK) ==
    The({
        IF Stat(W.fs, tpath) = "none"
        THEN The({[W |-> [W EXCEPT !.fs = r.fs],
                   job |-> [to |-> "dir", src |-> src, filename |-> filename, tpath |-> tpath,
                            existed |-> FALSE, sig |-> -1,
                            copy |-> IF r.err THEN "failed" ELSE "copied"]]
                  : r \in {CopyFile(W.fs, tpath, filename, ioOK)}})
        ELSE [W |-> W,
              job |-> [to |-> "dir", src |-> src, filename |-> filename, tpath |-> tpath,
                       existed |-> TRUE, sig |-> -1, copy |-> "asking"]]
       : tpath \in {Join(<<W.FPath[t], SplitPath(filename)[2]>>)}})

\* FileNode.CopyFileToFile: it always asks
CopyFileToFile(W, t, src, filename) ==
    [W |-> W,
     job |-> [to |-> "file", src |-> src, filename |-> filename, tpath |-> W.FPath[t],
              existed |-> Stat(W.fs, W.FPath[t]) # "none", sig |-> -1, copy |-> "asking"]]

NotFound == "could not find filenode at path"

\* the loop of PasteMime over the mime data from entry i on: [W, jobs, out]
RECURSIVE PasteData(_, _, _, _, _, _, _)
PasteData(W0, t, md, i, jobs, out, ioOK) ==
    IF i > Len(md) THEN [W |-> W0, jobs |-> jobs, out |-> out]
    ELSE IF md[i].Type # "text/plain" THEN PasteData(W0, t, md, i + 1, jobs, out, ioOK)
    ELSE The({
         The({
             IF sfn = NoNode THEN PasteData(W, t, md, i + 1, jobs, Append(out, NotFound), ioOK)
             ELSE The({PasteData(c.W, t, md, i + 1, Append(jobs, c.job), out, ioOK)
                       : c \in {IF W.InfoIsDir[t]
                                THEN CopyFileToDir(W, t, md[i].Data, W.FPath[sfn], ioOK)
                                ELSE CopyFileToFile(W, t, md[i].Data, W.FPath[sfn])}})
            : sfn \in {FindPathUnique(W, md[i].Data)}})
            : W \in {W0}})

\* a PasteMime that takes any number of files for a file
PasteMimeAny(W, t, md, ioOK) ==
    The({[W |-> UpdateNode(r.W, t).W, jobs |-> r.jobs, out |-> r.out, prompt |-> FALSE]
         : r \in {PasteData(W, t, md, 1, <<>>, <<>>, ioOK)}})

\* FileTreeView.PasteMime on the view of node t: [W, jobs, out, prompt]
PasteMime(W, t, md, ioOK) ==
    IF ~W.InfoIsDir[t] /\ Len(md) # 2
    THEN [W |-> W, jobs |-> <<>>, out |-> <<>>, prompt |-> TRUE]
    ELSE The({[W |-> UpdateNode(r.W, t).W, jobs |-> r.jobs, out |-> r.out, prompt |-> FALSE]
              : r \in {PasteData(W, t, md, 1, <<>>, <<>>, ioOK)}})

\* the loop of Dragged over the mime data from entry i on:
\* [W, deleted, delErr, out]; what DeleteFile returns is dropped by the code
\* and kept here in deleted and delErr
RECURSIVE DraggedData(_, _, _, _)
DraggedData(W0, md, i, acc) ==
    IF i > Len(md) THEN [acc EXCEPT !.W = W0]
    ELSE IF md[i].Type # "text/plain" THEN DraggedData(W0, md, i + 1, acc)
    ELSE The({
         The({
             IF sfn = NoNode
             THEN DraggedData(W, md, i + 1, [acc EXCEPT !.out = Append(@, NotFound)])
             ELSE The({DraggedData(r.W, md, i + 1,
                           IF r.err THEN [acc EXCEPT !.delErr = Append(@, md[i].Data)]
                           ELSE [acc EXCEPT !.deleted = Append(@, md[i].Data)])
                       : r \in {DeleteFile(W, sfn)}})
            : sfn \in {FindPathUnique(W, md[i].Data)}})
            : W \in {W0}})

\* FileTreeView.Dragged: [W, deleted, delErr, out]
Dragged(W, mod, md) ==
    IF mod # "DropMove" THEN [W |-> W, deleted |-> <<>>, delErr |-> <<>>, out |-> <<>>]
    ELSE DraggedData(W, md, 1, [W |-> W, deleted |-> <<>>, delErr |-> <<>>, out |-> <<>>])

\* at most MaxDrag nodes are dragged at once, in the order of the tree
MaxDrag == 2
DragSels == {sel \in SeqsUpTo(DOMAIN Nm \ {Root}, MaxDrag) :
                /\ sel # <<>>
                /\ \A i, j \in 1..Len(sel) : i < j => sel[i] < sel[j]}

InitDnD == InitTree /\ dnd = DndRec("idle")

\* the world W becomes the state; the changes a drag-and-drop makes to the
\* file system are not counted in fsChanges
StoreDnD(W) ==
    /\ \E V \in {W} : \E C \in {Renumbered(V)} : Store(C)
    /\ UNCHANGED <<fsChanges, msVars, searchVars, compVars>>

\* FileTreeView.Drop on the view of node t, the drag holding the nodes sel
DropCall(sel, t, mod, ioOK) ==
    /\ Opened /\ dnd.pc = "idle"
    /\ \A i \in 1..Len(sel) :
          /\ sel[i] # t
          /\ (IF InfoIsDir[t] THEN Join(<<FPath[t], SplitPath(FPath[sel[i]])[2]>>)
              ELSE FPath[t]) \in FsPaths
    /\ \E md \in {MimeData(CurW, sel)} : \E r \in {PasteMime(CurW, t, md, ioOK)} :
           /\ StoreDnD(r.W)
           /\ dnd' = [pc |-> "dropped", mod |-> mod, md |-> md, jobs |-> r.jobs,
                      prompt |-> r.prompt, deleted |-> <<>>, delErr |-> <<>>, out |-> r.out]

\* the function the overwrite dialog of job i calls back: 0 is "No, Cancel",
\* 1 is "Yes, Overwrite"
DialogAnswer(i, sig, ioOK) ==
    /\ i \in 1..Len(dnd.jobs) /\ dnd.jobs[i].copy = "asking"
    /\ IF sig = 0
       THEN /\ dnd' = [dnd EXCEPT !.jobs[i].copy = "declined", !.jobs[i].sig = 0]
            /\ UNCHANGED <<treeVars, OpenDirs, msVars, searchVars, compVars>>
       ELSE \E r \in {CopyFile(fs, dnd.jobs[i].tpath, dnd.jobs[i].filename, ioOK)} :
                /\ dnd' = [dnd EXCEPT !.jobs[i].copy = IF r.err THEN "failed" ELSE "copied",
                                      !.jobs[i].sig = 1]
                /\ StoreDnD([CurW EXCEPT !.fs = r.fs])

\* FileTreeView.Dragged on the view of the source, after the drop
DraggedCall ==
    /\ dnd.pc = "dropped"
    /\ \E r \in {Dragged(CurW, dnd.mod, dnd.md)} :
           /\ StoreDnD(r.W)
           /\ dnd' = [dnd EXCEPT !.pc = "done", !.deleted = r.deleted,
                                 !.delErr = r.delErr, !.out = dnd.out \o r.out]

NextDnD ==
    \/ OpenPathCall
    \/ \E n \in DOMAIN Nm : dnd.pc = "idle" /\ OpenDirCall(n)
    \/ \E n \in DOMAIN Nm : dnd.pc = "idle" /\ CloseDirCall(n)
    \/ \E sel \in DragSels, t \in DOMAIN Nm, mod \in {"DropMove", "DropCopy"}, ioOK \in BOOLEAN :
          DropCall(sel, t, mod, ioOK)
    \/ \E i \in 1..MaxDrag, sig \in {0, 1}, ioOK \in BOOLEAN : DialogAnswer(i, sig, ioOK)
    \/ DraggedCall
    \/ \E p \in FsPaths : dnd.pc = "dropped" /\ FsSet(p, "none")

SpecDnD == InitDnD /\ [][NextDnD]_vars

\* the job of the source with ki path src
JobsOf(src) == {i \in 1..Len(dnd.jobs) : dnd.jobs[i].src = src}

\* C20: in a drag-and-drop move a source is deleted only after its copy onto
\* the target has succeeded: in no reachable state a source has been deleted
\* while its copy failed, was declined, is still asked about, or was not made.
C20_DeleteOnlyAfterCopy ==
    \A k \in 1..Len(dnd.deleted) :
        \E i \in JobsOf(dnd.deleted[k]) : dnd.jobs[i].copy = "copied"

\* a job whose CopyFile has run
Ran(j) == j.copy \in {"copied", "failed"}

\* C21: in a move, when DeleteFile of a source fails after its copy has
\* succeeded, the source node stays in the tree and the failure is surfaced:
\* Dragged puts out a line for it (a line that is not the not-found line).
C21_DeleteFailureSurfaced ==
    dnd.pc = "done" =>
        \A k \in 1..Len(dnd.delErr) :
            (\E i \in JobsOf(dnd.delErr[k]) : dnd.jobs[i].copy = "copied") =>
                /\ FindPathUnique(CurW, dnd.delErr[k]) # NoNode
                /\ \E m \in 1..Len(dnd.out) : dnd.out[m] # NotFound

\* C22: CopyFile runs on a target that existed, and on the target of every
\* CopyFileToFile, only after the answer "Yes, Overwrite" (1); after the answer
\* "No, Cancel" (0) it has not run, and the step of that answer leaves the
\* file system as it is.
C22_NoOverwriteUnasked ==
    /\ [](\A i \in 1..Len(dnd.jobs) :
            /\ (Ran(dnd.jobs[i]) /\ (dnd.jobs[i].existed \/ dnd.jobs[i].to = "file"))
                  => dnd.jobs[i].sig = 1
            /\ dnd.jobs[i].sig = 0 => dnd.jobs[i].copy = "declined")
    /\ [][\A i \in 1..Len(dnd.jobs) :
            (dnd.jobs[i].copy = "asking" /\ dnd'.jobs[i].sig = 0) => fs' = fs]_vars

\* an existing target has been overwritten after "Yes, Overwrite", and another
\* copy has been declined
C22_Witness ==
    /\ \E i \in 1..Len(dnd.jobs) :
          dnd.jobs[i].existed /\ dnd.jobs[i].sig = 1 /\ dnd.jobs[i].copy = "copied"
    /\ \E i \in 1..Len(dnd.jobs) : dnd.jobs[i].sig = 0

\* C23: PasteMime of more than one file onto a node that is not a directory
\* shows the prompt and does nothing else: no copy, no overwrite dialog, the
\* tree and the file system as they were.
C23_MultiPasteRejected ==
    Opened =>
        \A t \in DOMAIN Nm, sel \in DragSels, ioOK \in BOOLEAN :
            (~InfoIsDir[t] /\ Len(sel) > 1) =>
                PasteMime(CurW, t, MimeData(CurW, sel), ioOK)
                    = [W |-> CurW, jobs |-> <<>>, out |-> <<>>, prompt |-> TRUE]

\* two files have been dropped onto a file
C23_Witness ==
    /\ dnd.pc = "dropped" /\ Len(dnd.md) = 4 /\ dnd.prompt /\ dnd.jobs = <<>>

-----------------------------------------------------------------------------
(* SpecODM: one mark / sweep cycle on an OpenDirMap with keys among MSKeys: *)
(* ClearFlags, then IsOpen on any keys (present or not), then RemoveStale.  *)

MSKeys == {"A", "B", "C"}

InitODM ==
    /\ \E K \in SUBSET MSKeys : OpenDirs \in [K -> BOOLEAN]
    /\ msPc = "start" /\ msKeys = {} /\ msRet = EmptyMap
    /\ IdleTree /\ IdleSearch /\ IdleDnD /\ IdleComp

MsClearFlags ==
    /\ msPc = "start"
    /\ OpenDirs' = ClearFlags(OpenDirs)
    /\ msKeys' = DOMAIN OpenDirs
    /\ msPc' = "mark"
    /\ UNCHANGED <<msRet, treeVars, searchVars, dndVars, compVars>>

MsIsOpen(k) ==
    /\ msPc = "mark"
    /\ LET r == IsOpen(OpenDirs, k)
       IN  /\ OpenDirs' = r.dm
           /\ msRet' = [x \in DOMAIN msRet \cup {k} |-> IF x = k THEN r.ret ELSE msRet[x]]
    /\ UNCHANGED <<msPc, msKeys, treeVars, searchVars, dndVars, compVars>>

MsRemoveStale ==
    /\ msPc = "mark"
    /\ OpenDirs' = RemoveStale(OpenDirs)
    /\ msPc' = "done"
    /\ UNCHANGED <<msKeys, msRet, treeVars, searchVars, dndVars, compVars>>

NextODM == MsClearFlags \/ (\E k \in MSKeys : MsIsOpen(k)) \/ MsRemoveStale

SpecODM == InitODM /\ [][NextODM]_vars

\* C3: after ClearFlags, IsOpen on the keys of a set S and RemoveStale, the map's
\* keys are exactly the keys of S that were in the map; IsOpen returned true for
\* exactly the keys that were in the map.
C3_MarkSweep ==
    /\ msPc = "done" => DOMAIN OpenDirs = DOMAIN msRet \cap msKeys
    /\ msPc \in {"mark", "done"} => \A k \in DOMAIN msRet : msRet[k] = (k \in msKeys)

\* a cycle that kept some keys, swept some, and asked for an absent key
C3_Witness ==
    /\ msPc = "done"
    /\ DOMAIN OpenDirs # {} /\ DOMAIN OpenDirs # msKeys
    /\ \E k \in DOMAIN msRet : k \notin msKeys

\* the entries of dm other than the one for path are the entries of dm2
SameButFor(dm, dm2, path) ==
    /\ DOMAIN dm2 \ {path} = DOMAIN dm \ {path}
    /\ \A k \in DOMAIN dm \ {path} : dm2[k] = dm[k]

\* C34: on the map of every state of the cycle, SetOpen adds the key (marked)
\* and SetClosed removes it, both leaving the other entries; RemoveStale
\* removes exactly the keys whose mark is false; IsOpen adds no key for an
\* absent path and changes nothing but the mark of a present key, which it
\* sets; ClearFlags keeps the keys.
C34_KeySetFrame ==
    /\ \A k \in MSKeys :
          /\ DOMAIN SetOpen(OpenDirs, k) = DOMAIN OpenDirs \cup {k}
          /\ SetOpen(OpenDirs, k)[k]
          /\ SameButFor(OpenDirs, SetOpen(OpenDirs, k), k)
          /\ DOMAIN SetClosed(OpenDirs, k) = DOMAIN OpenDirs \ {k}
          /\ SameButFor(OpenDirs, SetClosed(OpenDirs, k), k)
          /\ DOMAIN IsOpen(OpenDirs, k).dm = DOMAIN OpenDirs
          /\ SameButFor(OpenDirs, IsOpen(OpenDirs, k).dm, k)
          /\ k \in DOMAIN OpenDirs => IsOpen(OpenDirs, k).dm[k]
    /\ DOMAIN RemoveStale(OpenDirs) = {k \in DOMAIN OpenDirs : OpenDirs[k]}
    /\ \A k \in DOMAIN RemoveStale(OpenDirs) : RemoveStale(OpenDirs)[k]
    /\ DOMAIN ClearFlags(OpenDirs) = DOMAIN OpenDirs
    /\ \A k \in DOMAIN OpenDirs : ~ClearFlags(OpenDirs)[k]

\* IsOpen was called for an absent key; the map holds a marked and an unmarked key
C34_Witness ==
    /\ msPc = "mark"
    /\ \E k \in DOMAIN msRet : k \notin DOMAIN OpenDirs /\ ~msRet[k]
    /\ \E k \in DOMAIN OpenDirs : OpenDirs[k]
    /\ \E k \in DOMAIN OpenDirs : ~OpenDirs[k]

-----------------------------------------------------------------------------
(* Content search: FileSearchMatch, ByteBufSearch                           *)
(*                                                                          *)
(* A byte is a token: "a", "A", "b" are ASCII letters, "\n" the newline,    *)
(* "FF" the byte 0xFF (not valid UTF-8, as in a Latin-1 file), "EF" "BF"    *)
(* "BD" the UTF-8 encoding of U+FFFD, "00" the zero byte of make([]byte),   *)
(* and "?" a byte of the scanner's buffer that lies past the current line.  *)

\* bytes.ToLower = bytes.Map(unicode.ToLower, s): every rune is decoded,
\* mapped and re-encoded; a byte that is not valid UTF-8 decodes as
\* utf8.RuneError and is re-encoded as the three bytes of U+FFFD.
LowerRune(c) ==
    CASE c = "A"  -> <<"a">>
      [] c = "FF" -> <<"EF", "BF", "BD">>
      [] OTHER    -> <<c>>

RECURSIVE ToLower(_)
ToLower(s) == IF s = <<>> THEN <<>> ELSE LowerRune(Head(s)) \o ToLower(Tail(s))

\* bufio.Scanner with the default bufio.ScanLines: the lines of the stream, each
\* without its "\n" and without one trailing "\r"; a final empty line is dropped.
DropCR(l) == IF l # <<>> /\ l[Len(l)] = "\r" THEN SubSeq(l, 1, Len(l) - 1) ELSE l

RECURSIVE ScanLines(_)
ScanLines(data) ==
    IF data = <<>> THEN <<>>
    ELSE LET i == Index(data, <<"\n">>)
         IN  IF i < 0 THEN <<DropCR(data)>>
             ELSE <<DropCR(Slice(data, 0, i))>> \o ScanLines(Slice(data, i + 1, Len(data)))

mst == <<"<", "m", "a", "r", "k", ">">>
med == <<"<", "/", "m", "a", "r", "k", ">">>

\* bo[lo:hi] where bo = scan.Bytes() is a slice of the scanner's buffer: Go allows
\* hi up to cap(bo), so an offset past len(bo) reads what follows the line in the
\* buffer. lo > hi panics.
BufSlice(bo, lo, hi) == [k \in 1..(hi - lo) |-> IF lo + k <= Len(bo) THEN bo[lo + k] ELSE "?"]

\* copy(txt[ti:], src): copies min(len(txt) - ti, len(src)) bytes
Copy(txt, ti, src) ==
    [k \in 1..Len(txt) |-> IF k > ti /\ k <= ti + Len(src) THEN src[k - ti] ELSE txt[k]]

NewTextRegion(stLn, stCh, edLn, edCh) == <<stLn, stCh, edLn, edCh>>

\* one iteration of the inner loop of ByteBufSearch, for a match at offset i of
\* the line bo (b is the line searched, bo the original): the FileSearchMatch, or
\* a fault where Go panics (slice bounds out of range, negative make length).
MatchAt(bo, b, fsz, ctx, ln, i) ==
    LET sz   == Len(b)
        ci   == i + fsz
        reg  == NewTextRegion(ln, i, ln, ci)
        cist == Max(i - ctx, 0)
        cied == Min(ci + ctx, sz)
        tlen == Len(mst) + Len(med) + cied - cist
        txt0 == [k \in 1..tlen |-> "00"]
        t1   == Copy(txt0, 0, BufSlice(bo, cist, i))
        ti1  == i - cist
        t2   == Copy(t1, ti1, mst)
        ti2  == ti1 + Len(mst)
        t3   == Copy(t2, ti2, BufSlice(bo, i, ci))
        ti3  == ti2 + fsz
        t4   == Copy(t3, ti3, med)
        ti4  == ti3 + Len(med)
        t5   == Copy(t4, ti4, BufSlice(bo, ci, cied))
    IN  IF tlen < 0 \/ cist > i \/ ci > cied \/ ti4 > tlen
        THEN [fault |-> TRUE, Reg |-> reg, Text |-> <<>>]
        ELSE [fault |-> FALSE, Reg |-> reg, Text |-> t5]

\* the inner loop "for ci < sz": the matches of one line from cursor ci on
RECURSIVE LineMatches(_, _, _, _, _, _, _)
LineMatches(bo, b, findeff, fsz, ctx, ln, ci) ==
    IF ci >= Len(b) THEN <<>>
    ELSE LET i == Index(Slice(b, ci, Len(b)), findeff)
         IN  IF i < 0 THEN <<>>
             ELSE LET m == MatchAt(bo, b, fsz, ctx, ln, i + ci)
                  IN  IF m.fault THEN <<m>>
                      ELSE <<m>> \o LineMatches(bo, b, findeff, fsz, ctx, ln, i + ci + fsz)

\* the outer loop "for scan.Scan()"
RECURSIVE ScanMatches(_, _, _, _, _, _)
ScanMatches(lines, ln, findeff, fsz, ic, ctx) ==
    IF ln >= Len(lines) THEN <<>>
    ELSE LET bo == lines[ln + 1]
             b  == IF ic THEN ToLower(bo) ELSE bo
         IN  LineMatches(bo, b, findeff, fsz, ctx, ln, 0)
                 \o ScanMatches(lines, ln + 1, findeff, fsz, ic, ctx)

\* a search that starts scanning whatever the pattern is
ByteBufSearchScanAlways(rd, rerr, fnd, ic, ctx) ==
    [fault |-> FALSE, cnt |-> 0, matches |-> <<>>, read |-> Len(rd), logged |-> rerr]

\* ByteBufSearch(reader, find, ignoreCase): [fault, cnt, matches, read, logged].
\* rd is what the reader delivers and rerr tells whether it ends with an error
\* instead of io.EOF: the scanner hands out every line of the bytes it got (the
\* last one without its newline), then Scan returns false and scan.Err() is the
\* error, which is logged. matches = <<>> is the nil slice, read the number of
\* bytes taken from the reader. A panic (fault) returns nothing.
ByteBufSearch(rd, rerr, fnd, ic, ctx) ==
    LET fsz == Len(fnd)
    IN  IF fsz = 0
        THEN [fault |-> FALSE, cnt |-> 0, matches |-> <<>>, read |-> 0, logged |-> FALSE]
        ELSE LET findeff == IF ic THEN ToLower(fnd) ELSE fnd
                 ms      == ScanMatches(ScanLines(rd), 0, findeff, fsz, ic, ctx)
             IN  IF \E k \in 1..Len(ms) : ms[k].fault
                 THEN [fault |-> TRUE, cnt |-> 0, matches |-> <<>>, read |-> Len(rd),
                       logged |-> FALSE]
                 ELSE [fault |-> FALSE, cnt |-> Len(ms),
                       matches |-> [k \in 1..Len(ms) |-> [Reg |-> ms[k].Reg, Text |-> ms[k].Text]],
                       read |-> Len(rd), logged |-> rerr]

\* FileSearch(filename, find, ignoreCase): the file at filename is what os.Open
\* and the reads of it give: operr tells whether os.Open fails, rd and rerr are
\* as for ByteBufSearch
FileSearch(operr, rd, rerr, fnd, ic, ctx) ==
    IF operr
    THEN [fault |-> FALSE, cnt |-> 0, matches |-> <<>>, read |-> 0, logged |-> TRUE]
    ELSE ByteBufSearch(rd, rerr, fnd, ic, ctx)

-----------------------------------------------------------------------------
(* SpecSearch: ByteBufSearch on every stream of at most MaxSrcLen bytes and   *)
(* every pattern of at most MaxFindLen bytes, in both case modes.             *)

MaxSrcLen == 4
MaxFindLen == 2
DefaultFileSearchContext == 30

SrcBytes  == {"a", "A", "b", "\n", "FF"}
FindBytes == {"a", "A", "FF"}

InitSearch ==
    /\ reader \in SeqsUpTo(SrcBytes, MaxSrcLen)
    /\ find \in SeqsUpTo(FindBytes, MaxFindLen)
    /\ ignoreCase \in BOOLEAN
    /\ FileSearchContext \in {1, DefaultFileSearchContext}
    /\ searchOut = <<>>
    /\ OpenDirs = EmptyMap
    /\ IdleTree /\ IdleMS /\ IdleDnD /\ IdleComp

\* the call is recorded with its result: whether os.Open failed and whether the
\* reader ended with an error
ByteBufSearchCall ==
    /\ searchOut = <<>>
    /\ \E rerr \in BOOLEAN :
         searchOut' = <<ByteBufSearch(reader, rerr, find, ignoreCase, FileSearchContext),
                        [openErr |-> FALSE, readErr |-> rerr]>>
    /\ UNCHANGED <<reader, find, ignoreCase, FileSearchContext, OpenDirs, treeVars, msVars, dndVars, compVars>>

FileSearchCall ==
    /\ searchOut = <<>>
    /\ \E operr \in BOOLEAN, rerr \in BOOLEAN :
         /\ operr => ~rerr
         /\ searchOut' = <<FileSearch(operr, reader, rerr, find, ignoreCase, FileSearchContext),
                           [openErr |-> operr, readErr |-> rerr]>>
    /\ UNCHANGED <<reader, find, ignoreCase, FileSearchContext, OpenDirs, treeVars, msVars, dndVars, compVars>>

NextSearch == ByteBufSearchCall \/ FileSearchCall

SpecSearch == InitSearch /\ [][NextSearch]_vars

-----------------------------------------------------------------------------
(* Claims about the content search (checked under SpecSearch) *)

SearchDone == searchOut # <<>> /\ find # <<>> /\ ~searchOut[2].openErr
TheLines   == ScanLines(reader)

\* the pattern occurs at offset i of the line (in the case mode of the call)
Occurs(line, i) ==
    /\ i + Len(find) <= Len(line)
    /\ IF ignoreCase
       THEN ToLower(Slice(line, i, i + Len(find))) = ToLower(find)
       ELSE Slice(line, i, i + Len(find)) = find

\* the leftmost-first non-overlapping occurrences in a line, from offset from on
RECURSIVE Leftmost(_, _)
Leftmost(line, from) ==
    LET at == {i \in from..Len(line) : Occurs(line, i)}
    IN  IF at = {} THEN <<>>
        ELSE LET i == CHOOSE x \in at : \A y \in at : x <= y
             IN  <<i>> \o Leftmost(line, i + Len(find))

RECURSIVE ExpectedRegions(_, _)
ExpectedRegions(lines, ln) ==
    IF ln >= Len(lines) THEN <<>>
    ELSE LET st == Leftmost(lines[ln + 1], 0)
         IN  [k \in 1..Len(st) |-> <<ln, st[k], ln, st[k] + Len(find)>>]
                 \o ExpectedRegions(lines, ln + 1)

\* C8: with a non-empty pattern the call returns, line by line, exactly the
\* leftmost-first non-overlapping occurrences of the pattern, each as the region
\* (ln, i)-(ln, i + len(pattern)), and cnt is the number of matches returned.
C8_LeftmostOccurrences ==
    SearchDone =>
        LET r == searchOut[1]
        IN  /\ ~r.fault
            /\ r.cnt = Len(r.matches)
            /\ [k \in 1..Len(r.matches) |-> r.matches[k].Reg] = ExpectedRegions(TheLines, 0)

\* C9: every snippet is the line's bytes before the match (at most
\* FileSearchContext of them), <mark>, the matched bytes, </mark>, and the line's
\* bytes after the match (at most FileSearchContext of them), all of the line
\* the match is in.
C9_SnippetOfLine ==
    SearchDone =>
        LET r == searchOut[1]
        IN  /\ ~r.fault
            /\ \A k \in 1..Len(r.matches) :
                 LET m    == r.matches[k]
                     line == TheLines[m.Reg[1] + 1]
                     i    == m.Reg[2]
                     ci   == m.Reg[4]
                 IN  /\ ci <= Len(line)
                     /\ m.Text = Slice(line, i - Min(FileSearchContext, i), i)
                                   \o mst \o Slice(line, i, ci) \o med
                                   \o Slice(line, ci, ci + Min(FileSearchContext, Len(line) - ci))

\* C10: with ignoreCase the regions are those of a case-sensitive search of the
\* lower-cased pattern in the lower-cased lines, and every snippet's context and
\* matched bytes are bytes of the original line at those offsets.
C10_FoldedRegionsOriginalBytes ==
    (SearchDone /\ ignoreCase) =>
        LET r   == searchOut[1]
            ref == ByteBufSearch(ToLower(reader), FALSE, ToLower(find), FALSE, FileSearchContext)
        IN  /\ ~r.fault
            /\ [k \in 1..Len(r.matches) |-> r.matches[k].Reg]
                 = [k \in 1..Len(ref.matches) |-> ref.matches[k].Reg]
            /\ \A k \in 1..Len(r.matches) :
                 LET m    == r.matches[k]
                     line == TheLines[m.Reg[1] + 1]
                     i    == m.Reg[2]
                     ci   == m.Reg[4]
                     cist == Max(i - FileSearchContext, 0)
                     cied == Min(ci + FileSearchContext, Len(ToLower(line)))
                 IN  /\ cied <= Len(line)
                     /\ m.Text = Slice(line, cist, i) \o mst \o Slice(line, i, ci)
                                   \o med \o Slice(line, ci, cied)

\* C11: with an empty pattern the search returns count 0 and the nil match
\* list and takes no byte from the source, whatever the source and the case mode.
C11_EmptyPattern ==
    (searchOut # <<>> /\ find = <<>>) =>
        LET r == searchOut[1]
        IN  ~r.fault /\ r.cnt = 0 /\ r.matches = <<>> /\ r.read = 0

C11_Witness ==
    /\ searchOut # <<>> /\ find = <<>> /\ reader # <<>> /\ ignoreCase
    /\ ~searchOut[2].openErr /\ searchOut[1].read = 0

\* C12: a search that met an I/O failure (os.Open failed, or the reader ended
\* with an error) returns count 0 and the nil match list.
C12_NoPartialResult ==
    (searchOut # <<>> /\ (searchOut[2].openErr \/ searchOut[2].readErr)) =>
        LET r == searchOut[1]
        IN  r.cnt = 0 /\ r.matches = <<>>

-----------------------------------------------------------------------------
(* SpecComplete: one Complete.  Show and Cancel are called by the thread of   *)
(* the events; the function Show hands to time.AfterFunc runs on a thread of *)
(* its own when the timer fires.  The part of Show and of Cancel that holds  *)
(* DelayMu is one step each; Cancel reads Vp before it takes DelayMu, and    *)
(* ShowNow holds ShowMu from its first assignment of Vp to its return.       *)

\* time.Timer.Stop: keeps the function from running if it was not started yet;
\* no effect on a timer that fired (and none on a nil timer, which the callers
\* rule out)
Stop(c, t) ==
    IF t # 0 /\ c.timer[t] = "pending" THEN [c EXCEPT !.timer[t] = "stopped"] ELSE c

\* time.AfterFunc: a new timer, scheduled
AfterFunc(c) ==
    The({[c EXCEPT !.timer[t] = "pending", !.DelayTimer = t]
       : t \in {CHOOSE t \in Timers :
                   c.timer[t] = "unused" /\ \A u \in 1..(t - 1) : c.timer[u] # "unused"}})

\* Complete.Show; ok: MatchFunc, vp and vp.Win are not nil
Show(c, text, ok) ==
    IF ~ok THEN c
    ELSE The({IF text = <<>> THEN s ELSE AfterFunc(s)
            : s \in {IF c.DelayTimer # 0 THEN Stop(c, c.DelayTimer) ELSE c}})

Pending(c) == {t \in Timers : c.timer[t] = "pending"}

CompStep(c) ==
    /\ comp' = c
    /\ UNCHANGED <<treeVars, OpenDirs, msVars, searchVars, dndVars>>

ShowCall(text, ok) ==
    /\ comp.cancel.pc # "locking"
    /\ (ok /\ text # <<>>) => \E t \in Timers : comp.timer[t] = "unused"
    /\ CompStep(Show(comp, text, ok))

\* the timer fires: its function is started on a thread of its own
TimerFire(t) ==
    /\ comp.timer[t] = "pending"
    /\ CompStep([comp EXCEPT !.timer[t] = "fired"])

\* Complete.ShowNow, from ShowMu.Lock to the call of MatchFunc
ShowNowBegin(t) ==
    /\ comp.timer[t] = "fired" /\ comp.ShowMu = 0
    /\ CompStep([comp EXCEPT !.ShowMu = t, !.Vp = "nil", !.timer[t] = "shownow"])

\* Complete.ShowNow, from the return of MatchFunc to the deferred ShowMu.Unlock;
\* menu: there are completions to show (count > 0, not the seed alone, and
\* count <= CompleteMaxItems or force)
ShowNowEnd(t, menu) ==
    /\ comp.timer[t] = "shownow"
    /\ CompStep([comp EXCEPT !.ShowMu = 0, !.Vp = IF menu THEN "vp" ELSE @,
                             !.timer[t] = "clear"])

\* the end of the function of the timer: DelayTimer = nil under DelayMu
TimerFuncEnd(t) ==
    /\ comp.timer[t] = "clear"
    /\ CompStep([comp EXCEPT !.DelayTimer = 0, !.timer[t] = "done"])

\* Complete.Cancel up to DelayMu.Lock: returns false if Vp is nil; had: the
\* timers scheduled and not started at the call
CancelBegin ==
    /\ comp.cancel.pc # "locking"
    /\ CompStep([comp EXCEPT !.cancel =
                    [pc  |-> IF comp.Vp = "nil" THEN "returned" ELSE "locking",
                     had |-> Pending(comp), ret |-> FALSE]])

\* Complete.Cancel from DelayMu.Lock to its return, DelayMu.Unlock included
CancelLocked(c) ==
    IF c.DelayTimer # 0
    THEN [Stop(c, c.DelayTimer) EXCEPT
            !.Vp = "nil", !.DelayTimer = 0, !.DelayMu = 0,
            !.cancel.pc = "returned", !.cancel.ret = TRUE]
    ELSE [c EXCEPT !.Vp = "nil", !.DelayMu = 0, !.cancel.pc = "returned",
                   !.cancel.ret = FALSE]

CancelEnd ==
    /\ comp.cancel.pc = "locking"
    /\ CompStep(CancelLocked(comp))

InitComplete ==
    /\ comp = CompRec
    /\ OpenDirs = EmptyMap
    /\ IdleTree /\ IdleMS /\ IdleSearch /\ IdleDnD

NextComplete ==
    \/ \E text \in {<<>>, <<"t">>}, ok \in BOOLEAN : ShowCall(text, ok)
    \/ \E t \in Timers : TimerFire(t)
    \/ \E t \in Timers : ShowNowBegin(t)
    \/ \E t \in Timers, menu \in BOOLEAN : ShowNowEnd(t, menu)
    \/ \E t \in Timers : TimerFuncEnd(t)
    \/ CancelBegin
    \/ CancelEnd

SpecComplete == InitComplete /\ [][NextComplete]_vars

\* C25: when Cancel has returned, no ShowNow that was scheduled and not started
\* when Cancel was called is still scheduled (so none of them runs later), and
\* Cancel returned true if there was one to stop; whether Vp is nil or not.
C25_CancelStopsPending ==
    comp.cancel.pc = "returned" =>
        /\ \A t \in comp.cancel.had : comp.timer[t] # "pending"
        /\ (\E t \in comp.cancel.had : comp.timer[t] = "stopped") => comp.cancel.ret

\* C26: at most one delayed ShowNow is scheduled at any time (Show stops the
\* one scheduled before, and Show with the empty text schedules none).
C26_OneDelayedShowNow == Cardinality(Pending(comp)) <= 1

-----------------------------------------------------------------------------
(* SpecMutex: the Complete of SpecComplete with every Lock and Unlock of     *)
(* DelayMu a step of its own.  A thread that calls Lock waits until the      *)
(* mutex is free.  Complete.Complete calls Cancel on the thread of the       *)
(* events and takes no mutex otherwise, so that it is a call of Cancel here. *)

\* Show that returns on the empty text without DelayMu.Unlock
ShowHeldEmptyKeepsLock(c, text) ==
    IF text = <<>> THEN Show(c, text, TRUE) ELSE [Show(c, text, TRUE) EXCEPT !.DelayMu = 0]

\* Complete.Show from DelayMu.Lock to its return, DelayMu.Unlock included
ShowHeld(c, text) == [Show(c, text, TRUE) EXCEPT !.DelayMu = 0]

CallerIdle == comp.caller.pc = "idle" /\ comp.cancel.pc \notin {"locking", "held"}

\* Complete.Show up to DelayMu.Lock
ShowEnter(text, ok) ==
    /\ CallerIdle
    /\ (ok /\ text # <<>>) => \E t \in Timers : comp.timer[t] = "unused"
    /\ CompStep(IF ok THEN [comp EXCEPT !.caller = [pc |-> "lock", text |-> text]] ELSE comp)

\* DelayMu.Lock in Show
ShowLock ==
    /\ comp.caller.pc = "lock" /\ comp.DelayMu = 0
    /\ CompStep([comp EXCEPT !.DelayMu = Caller, !.caller.pc = "held"])

ShowLeave ==
    /\ comp.caller.pc = "held"
    /\ CompStep([ShowHeld(comp, comp.caller.text) EXCEPT
                    !.caller = [pc |-> "idle", text |-> <<>>]])

\* DelayMu.Lock in Cancel
CancelLock ==
    /\ comp.cancel.pc = "locking" /\ comp.DelayMu = 0
    /\ CompStep([comp EXCEPT !.DelayMu = Caller, !.cancel.pc = "held"])

CancelLeave ==
    /\ comp.cancel.pc = "held"
    /\ CompStep(CancelLocked(comp))

\* DelayMu.Lock in the function of the timer
ClearLock(t) ==
    /\ comp.timer[t] = "clear" /\ comp.DelayMu = 0
    /\ CompStep([comp EXCEPT !.DelayMu = t, !.timer[t] = "clearing"])

\* DelayTimer = nil and DelayMu.Unlock in the function of the timer
ClearLeave(t) ==
    /\ comp.timer[t] = "clearing"
    /\ CompStep([comp EXCEPT !.DelayTimer = 0, !.DelayMu = 0, !.timer[t] = "done"])

\* the steps that go on with a call or a function of a timer that has begun
InFlight ==
    \/ ShowLock
    \/ ShowLeave
    \/ CancelLock
    \/ CancelLeave
    \/ \E t \in Timers : ShowNowBegin(t)
    \/ \E t \in Timers, menu \in BOOLEAN : ShowNowEnd(t, menu)
    \/ \E t \in Timers : ClearLock(t)
    \/ \E t \in Timers : ClearLeave(t)

NextMutex ==
    \/ \E text \in {<<>>, <<"t">>}, ok \in BOOLEAN : ShowEnter(text, ok)
    \/ CallerIdle /\ CancelBegin
    \/ \E t \in Timers : TimerFire(t)
    \/ InFlight

SpecMutex == InitComplete /\ [][NextMutex]_vars

\* a call or a function of a timer has begun and not returned
MidOperation ==
    \/ comp.caller.pc # "idle"
    \/ comp.cancel.pc \in {"locking", "held"}
    \/ \E t \in Timers : comp.timer[t] \in {"fired", "shownow", "clear", "clearing"}

\* C39: while a call of Show or Cancel or the function of a timer is under
\* way, one of them can take a step (no deadlock); the thread that holds
\* ShowMu is inside ShowNow and neither holds nor waits for DelayMu, the thread
\* that holds DelayMu is inside the locked part of Show, of Cancel or of the
\* function of a timer and neither holds nor waits for ShowMu; a thread that
\* is not there holds no mutex (each path has released what it locked).
C39_NoDeadlock ==
    /\ MidOperation => ENABLED InFlight
    /\ comp.ShowMu \in Timers \cup {0}
    /\ \A t \in Timers : (comp.ShowMu = t) <=> (comp.timer[t] = "shownow")
    /\ \A t \in Timers : (comp.DelayMu = t) <=> (comp.timer[t] = "clearing")
    /\ (comp.DelayMu = Caller) <=> (comp.caller.pc = "held" \/ comp.cancel.pc = "held")
    /\ comp.DelayMu \in Timers \cup {0, Caller}

\* Show waits for DelayMu, which the function of a timer holds, while the
\* function of another timer is inside ShowNow
C39_Witness ==
    /\ comp.caller.pc = "lock"
    /\ comp.DelayMu \in Timers /\ comp.ShowMu \in Timers
    /\ \E t \in Timers : comp.timer[t] = "fired"

=============================================================================
